---- MODULE Spec2Model ----
(***************************************************************************)
(* A model of evstream: the SSE connection manager (EvStreamManager), the  *)
(* reactive state (EvState) with its Redis adapter, and the state manager  *)
(* (EvStateManager) with its lifecycle pub/sub.                            *)
(*                                                                         *)
(* The repository holds two generations of some files.  The model follows  *)
(* the current one: the manager of src/unnamed/part_002, the Evstream of   *)
(* src/src/stream.ts:16-125, the EvState of src/src/adapters/redis.ts:     *)
(* 134-199 and the EvRedisPubSub of src/unnamed/part_004.                  *)
(*                                                                         *)
(* The specifications of the module:                                       *)
(*   Spec       one EvStreamManager (no bridge bound) and its connections  *)
(*   SpecState  one adapter-bound EvState per process on one channel       *)
(*   SpecLife   one EvStateManager per process on one lifecycle subject    *)
(*   SpecLoop   processes with both an adapter and a lifecycle pub/sub     *)
(*   SpecRelay  one EvStreamManager per process, bridged on one subject    *)
(*   SpecStream one Evstream, its sink and the message encoder             *)
(*   SpecHandle one connection used through createStream's handle          *)
(*   SpecForeign the transports with other publishers and repeats          *)
(*   SpecShared one EvRedisPubSub and the handlers registered on it        *)
(*   SpecAdapter one EvRedisAdapter channel, overlapping subscribes        *)
(*   SpecRemoved one EvStateManager and the instances removed              *)
(*   SpecIds    one EvStreamManager and the counter of its ids             *)
(*   SpecInstances one EvStateManager with an adapter, every instance      *)
(*   SpecBridged an EvState with an adapter on a manager with a bridge     *)
(*   SpecUnsubscribe one EvRedisAdapter channel, subscribe and unsubscribe *)
(***************************************************************************)
EXTENDS Integers, Sequences, FiniteSets, TLC

(* ------------------------------ bounds -------------------------------- *)

\* opts.maxConnection given to the EvStreamManager constructor
MaxConnection == 2
\* opts.maxListeners given to the EvStreamManager constructor
MaxListeners == 1

\* connection slots: the handles the callers hold at once, one more than the
\* manager admits
Conns == 1..(MaxConnection + 1)
Channels == {"news", "chat"}
\* how many listen() calls one connection makes at most
MaxSubs == Cardinality(Channels)
\* what a caller passes to close(): nothing, a callback that returns, one that throws
Callbacks == {"none", "returns", "throws"}

VARIABLES
    clients,    \* EvStreamManager.#clients: the ids in the registry
    listeners,  \* EvStreamManager.#listeners: channel -> set of ids
    count,      \* EvStreamManager.#count
    created,    \* created[c]: createStream has returned a handle for slot c
    isClosed,   \* isClosed[c]: the closure variable of slot c's createStream
    channels,   \* channels[c]: the closure array of slot c's createStream
    res,        \* res[c]: the response sink of slot c
    hist,       \* hist[c]: what the teardown of slot c has done so far
    last        \* the last call made and its outcome

mvars == <<clients, listeners, count, created, isClosed, channels, res, hist, last>>

\* A fresh ServerResponse: not ended, its 'close' event not emitted, the manager's
\* 'close' listener not registered, no 'end' event written.
FreshRes == [ended |-> FALSE, closeEmitted |-> FALSE, closeListener |-> FALSE, endEvents |-> 0]
FreshHist == [onClose |-> 0, decr |-> 0]
NoCall == [op |-> "none", c |-> 0, ch |-> "", result |-> "ok", val |-> 0, wrote |-> {}]

Call(op, c, ch, result, val, wrote) ==
    [op |-> op, c |-> c, ch |-> ch, result |-> result, val |-> val, wrote |-> wrote]

(* ------------------------- EvStreamManager ---------------------------- *)

\* new Map(): a channel index with no entry
EmptyIndex == [n \in {} |-> {}]

\* createStream's capacity test
AtCapacityOffByOne == count > MaxConnection
AtCapacity == count >= MaxConnection

\* #listen(name, id) on the channel index L: the index afterwards and whether it threw
ListenNoLimit(L, name, id) ==
    LET L1 == IF name \in DOMAIN L THEN L ELSE L @@ (name :> {})
    IN  [L |-> [L1 EXCEPT ![name] = @ \cup {id}], threw |-> FALSE, size |-> 0]
ListenPriv(L, name, id) ==
    LET L1 == IF name \in DOMAIN L THEN L ELSE L @@ (name :> {})
    IN  IF Cardinality(L1[name]) >= MaxListeners
        THEN [L |-> L1, threw |-> TRUE, size |-> Cardinality(L1[name])]
        ELSE [L |-> [L1 EXCEPT ![name] = @ \cup {id}], threw |-> FALSE, size |-> 0]

\* #unlisten(name, id) on the channel index L
UnlistenKeepEmpty(L, name, id) ==
    IF name \notin DOMAIN L THEN L
    ELSE [L EXCEPT ![name] = @ \ {id}]
Unlisten(L, name, id) ==
    IF name \notin DOMAIN L THEN L
    ELSE LET s == L[name] \ {id}
         IN  IF s = {} THEN [n \in DOMAIN L \ {name} |-> L[n]]
             ELSE [L EXCEPT ![name] = s]

\* channels.forEach((ch) => this.#unlisten(ch, id))
UnlistenFirstOnly(L, chs, id) ==
    IF chs = <<>> THEN L ELSE Unlisten(L, Head(chs), id)
RECURSIVE UnlistenAll(_, _, _)
UnlistenAll(L, chs, id) ==
    IF chs = <<>> THEN L
    ELSE UnlistenAll(Unlisten(L, Head(chs), id), Tail(chs), id)

\* A slot can take a new connection when no handle uses it, or when its connection
\* is closed and gone from the registry (the old handle is dropped).  The slots
\* are interchangeable, and a new connection takes the lowest free one.
SlotFree(c) == ~created[c] \/ (isClosed[c] /\ c \notin clients)

CreateStream(c) ==
    /\ SlotFree(c)
    /\ \A d \in Conns : d < c => ~SlotFree(d)
    /\ IF AtCapacity
       THEN /\ last' = Call("createStream", 0, "", "EvMaxConnectionsError", MaxConnection, {})
            /\ UNCHANGED <<clients, listeners, count, created, isClosed, channels, res, hist>>
       ELSE /\ count' = count + 1
            /\ clients' = clients \cup {c}
            /\ created' = [created EXCEPT ![c] = TRUE]
            /\ isClosed' = [isClosed EXCEPT ![c] = FALSE]
            /\ channels' = [channels EXCEPT ![c] = <<>>]
            /\ res' = [res EXCEPT ![c] = [FreshRes EXCEPT !.closeListener = TRUE]]
            /\ hist' = [hist EXCEPT ![c] = FreshHist]
            /\ last' = Call("createStream", 0, "", "ok", 0, {})
            /\ UNCHANGED listeners

\* a teardown that leaves the count as it is
TeardownKeepCount(c, r) ==
    /\ res' = [res EXCEPT ![c] = [r EXCEPT !.closeListener = FALSE,
                                           !.endEvents = @ + 1,
                                           !.ended = TRUE]]
    /\ count' = count
    /\ listeners' = UnlistenAll(listeners, channels[c], c)
    /\ channels' = [channels EXCEPT ![c] = <<>>]
    /\ clients' = clients \ {c}

\* The teardown after the isClosed test and the onClose call: remove the sink's
\* listeners, Evstream.close() (the 'end' event, res.end()), the count, the
\* channels, the registry.
Teardown(c, r) ==
    /\ res' = [res EXCEPT ![c] = [r EXCEPT !.closeListener = FALSE,
                                           !.endEvents = @ + 1,
                                           !.ended = TRUE]]
    /\ count' = count - 1
    /\ listeners' = UnlistenAll(listeners, channels[c], c)
    /\ channels' = [channels EXCEPT ![c] = <<>>]
    /\ clients' = clients \ {c}

\* close(onClose) of slot c's handle; cb says what the caller passed, r is the
\* sink as the call finds it
CloseBody(c, cb, op, r) ==
    IF isClosed[c]
    THEN /\ last' = Call(op, 0, "", "noop", 0, {})
         /\ res' = [res EXCEPT ![c] = r]
         /\ UNCHANGED <<clients, listeners, count, isClosed, channels, hist>>
    ELSE /\ isClosed' = [isClosed EXCEPT ![c] = TRUE]
         /\ IF cb = "throws"
            THEN /\ hist' = [hist EXCEPT ![c] = [@ EXCEPT !.onClose = @ + 1]]
                 /\ last' = Call(op, c, "", "threw", 0, {})
                 /\ res' = [res EXCEPT ![c] = r]
                 /\ UNCHANGED <<clients, listeners, count, channels>>
            ELSE /\ hist' = [hist EXCEPT ![c] =
                        [onClose |-> IF cb = "returns" THEN @.onClose + 1 ELSE @.onClose,
                         decr |-> @.decr + 1]]
                 /\ Teardown(c, r)
                 /\ last' = Call(op, c, "", "ok", Len(channels[c]), {})

Close(c, cb) ==
    /\ created[c]
    /\ CloseBody(c, cb, "close", res[c])
    /\ UNCHANGED created

\* The sink emits 'close' (the client went away) and its listener, the manager's
\* close, runs without arguments.  With no listener left on the sink the event
\* reaches no code of the manager.
SinkClose(c) ==
    /\ created[c]
    /\ ~res[c].closeEmitted
    /\ res[c].closeListener
    /\ CloseBody(c, "none", "sinkClose", [res[c] EXCEPT !.closeEmitted = TRUE])
    /\ UNCHANGED created

\* listen(name) of slot c's handle
Listen(c, name) ==
    /\ created[c]
    /\ Len(channels[c]) < MaxSubs
    /\ IF isClosed[c]
       THEN /\ last' = Call("listen", 0, "", "noop", 0, {})
            /\ UNCHANGED <<listeners, channels>>
       ELSE LET r == ListenPriv(listeners, name, c)
            IN  /\ channels' = [channels EXCEPT ![c] = Append(@, name)]
                /\ listeners' = r.L
                /\ last' = IF r.threw
                           THEN Call("listen", c, name, "EvMaxListenerError", r.size, {})
                           ELSE Call("listen", c, name, "ok", 0, {})
    /\ UNCHANGED <<clients, count, created, isClosed, res, hist>>

\* sendLocal(name, msg): whether it threw, and the connections it wrote to
SendLocalNoGuard(name) ==
    IF name \notin DOMAIN listeners
    THEN [threw |-> TRUE, wrote |-> {}]
    ELSE [threw |-> FALSE, wrote |-> {id \in listeners[name] : id \in clients}]
SendLocal(name) ==
    IF name \notin DOMAIN listeners
    THEN [threw |-> FALSE, wrote |-> {}]
    ELSE [threw |-> FALSE, wrote |-> {id \in listeners[name] : id \in clients}]

\* send(name, msg) of a manager with no bridge bound
Send(name) ==
    LET r == SendLocal(name)
    IN  /\ last' = Call("send", 0, name, IF r.threw THEN "TypeError" ELSE "ok", 0, r.wrote)
        /\ UNCHANGED <<clients, listeners, count, created, isClosed, channels, res, hist>>

(* ------------------------ connection ids ------------------------------ *)

VARIABLES
    counterOf       \* counterOf[c]: the counter component of the id slot c's connection got, -1 before

ivars == <<counterOf>>

\* uid({ counter, prefix }): the component of the id that is neither the time nor
\* the random text
UidCounter(counter) == counter

\* createStream, with the id it makes: the counter handed to uid is #count
CreateStreamUid(c) ==
    /\ CreateStream(c)
    /\ counterOf' = IF AtCapacity THEN counterOf
                    ELSE [counterOf EXCEPT ![c] = UidCounter(count)]

\* the ids of the other specifications: not looked at
IdsAtRest == counterOf = [c \in Conns |-> -1]

(* ------------------- EvState and EvRedisAdapter ---------------------- *)

\* the server processes, each with its own EvRedisAdapter and EvState
Procs == {1, 2}
\* state values: objects, compared by structure
Values == {[n |-> 0], [n |-> 1]}
\* the initialValue every process constructs its EvState with
InitialValue == [n |-> 0]
\* EvState.#key: this.#key = key || 'value'
WrapKey == "value"
\* messages the transport holds for one subscriber at most
MaxInFlight == 3

VARIABLES
    adapterBound,   \* the EvState was constructed with an adapter
    value,          \* value[p]: EvState.#value on process p
    subscribed,     \* subscribed[p]: adapter.subscribe has resolved on process p
    net,            \* net[p]: the channel's messages Redis has yet to hand to p, oldest first
    missed,         \* a publish found another process not subscribed yet
    slast           \* the last EvState call and what it did

svars == <<adapterBound, value, subscribed, net, missed, slast>>

NoStateCall == [op |-> "none", p |-> 0, arg |-> InitialValue, sends |-> 0, pubs |-> 0]
StateCall(op, p, arg, sends, pubs) ==
    [op |-> op, p |-> p, arg |-> arg, sends |-> sends, pubs |-> pubs]

\* lodash isEqual
IsEqualByReference(a, b) == FALSE
IsEqual(a, b) == a = b

\* { [this.#key]: newValue }
Wrap(v) == (WrapKey :> v)

\* payloads of the transports that JSON.stringify did not make: a text that is
\* not JSON, and the JSON text null
NotJson == [raw |-> "{"]
JsonNull == [json |-> "null"]
\* undefined, as read from a missing property and as passed to a handler
Undefined == [t |-> "undefined"]
\* data && typeof data === 'object': a primitive of the model carries its type
\* in t, an object does not
IsObject(data) == "t" \notin DOMAIN data
\* obj?.f
Field(obj, f) == IF f \in DOMAIN obj THEN obj[f] ELSE Undefined

\* EvRedisAdapter.publish: JSON.stringify({ id: this.#instanceId, message })
Envelope(p, message) == [id |-> p, message |-> message]

\* Redis PUBLISH: one copy for every process subscribed to the channel, the
\* publisher included.  Redis hands a subscriber its messages in the order of the
\* publishes.
Transmit(N, subs, m) ==
    [q \in Procs |-> IF subs[q] THEN Append(N[q], m) ELSE N[q]]

\* room for one more message to every subscriber
HasRoom(N, bound) == \A q \in Procs : Len(N[q]) < bound



\* EvState.set(callback); nv is what callback(this.#value) returns
SetValue(p, nv) ==
    /\ HasRoom(net, MaxInFlight)
    /\ IF ~IsEqual(nv, value[p])
       THEN /\ value' = [value EXCEPT ![p] = nv]
            /\ IF adapterBound
               THEN /\ net' = Transmit(net, subscribed, Envelope(p, Wrap(nv)))
                    /\ missed' = (missed \/ \E q \in Procs : ~subscribed[q])
                    /\ slast' = StateCall("set", p, nv, 1, 1)
               ELSE /\ slast' = StateCall("set", p, nv, 1, 0)
                    /\ UNCHANGED <<net, missed>>
       ELSE /\ slast' = StateCall("set", p, nv, 0, 0)
            /\ UNCHANGED <<value, net, missed>>
    /\ UNCHANGED <<adapterBound, subscribed>>

\* The transport subscription of the EvState constructor's adapter.subscribe
\* completes and the handler is added to the adapter's #listeners.
SubscribeDone(p) ==
    /\ adapterBound
    /\ ~subscribed[p]
    /\ subscribed' = [subscribed EXCEPT ![p] = TRUE]
    /\ slast' = StateCall("subscribed", p, InitialValue, 0, 0)
    /\ UNCHANGED <<adapterBound, value, net, missed>>

\* EvState.#handleRemoteUpdate(data) on process p: the new value and the number of
\* manager.send calls
RemoteUpdateAlways(v, data) ==
    IF IsObject(data) /\ WrapKey \in DOMAIN data
    THEN [value |-> data[WrapKey], sends |-> 1]
    ELSE [value |-> v, sends |-> 0]
HandleRemoteUpdate(v, data) ==
    IF IsObject(data) /\ WrapKey \in DOMAIN data /\ ~IsEqual(data[WrapKey], v)
    THEN [value |-> data[WrapKey], sends |-> 1]
    ELSE [value |-> v, sends |-> 0]

\* parsed?.id === this.#instanceId: the adapter of process p published m itself
AdapterSelfNever(p, m) == FALSE
AdapterSelf(p, m) == "id" \in DOMAIN m /\ m.id = p

\* the 'message' listener of the EvRedisAdapter constructor on the payload m, up
\* to the call of the handlers: JSON.parse throws and is caught, or the message
\* is the adapter's own, or the handlers are called
AdapterListener(p, m) ==
    IF "raw" \in DOMAIN m THEN "caught"
    ELSE IF AdapterSelf(p, m) THEN "self"
    ELSE "handler"

\* Redis hands process p's adapter its oldest queued message: the 'message'
\* listener of the EvRedisAdapter constructor, then the handler EvState registered.
\* A payload that is not an update of the state ({ [key]: value }) is recorded as
\* ignored, one that made JSON.parse throw as caught.
Receive(p) ==
    LET m == Head(net[p])
        how == IF ~subscribed[p] THEN "none" ELSE AdapterListener(p, m)
        data == Field(m, "message")
        r == HandleRemoteUpdate(value[p], data)
    IN
    /\ net[p] # <<>>
    /\ net' = [net EXCEPT ![p] = Tail(@)]
    /\ IF how = "handler"
       THEN /\ value' = [value EXCEPT ![p] = r.value]
            /\ slast' = IF IsObject(data) /\ WrapKey \in DOMAIN data
                        THEN StateCall("remote", p, data[WrapKey], r.sends, 0)
                        ELSE StateCall("ignored", p, InitialValue, r.sends, 0)
       ELSE /\ slast' = StateCall(IF how \in {"caught", "threw"} THEN how ELSE "dropped",
                                  p, InitialValue, 0, 0)
            /\ UNCHANGED value
    /\ UNCHANGED <<adapterBound, subscribed, missed>>

\* Redis hands process p's adapter its oldest queued update and will hand it over
\* once more (the transport delivers at least once): the listener and the handler
\* run as in Receive, the message stays queued.  A delivery that repeats the one
\* before it is recorded as again.
DeliverKeep(p) ==
    LET m == Head(net[p])
        data == Field(m, "message")
        r == HandleRemoteUpdate(value[p], data)
    IN
    /\ net[p] # <<>>
    /\ subscribed[p]
    /\ AdapterListener(p, m) = "handler"
    /\ IsObject(data) /\ WrapKey \in DOMAIN data
    /\ value' = [value EXCEPT ![p] = r.value]
    /\ slast' = StateCall(IF slast.op \in {"duplicate", "again"} /\ slast.p = p
                          THEN "again" ELSE "duplicate",
                          p, data[WrapKey], r.sends, 0)
    /\ UNCHANGED <<adapterBound, subscribed, net, missed>>

(* ------------------ EvStateManager and EvRedisPubSub ------------------ *)

\* the state keys the callers use
Keys == {"user-count"}
\* EvState instances one process constructs at most
MaxInst == 2
\* lifecycle messages the transport holds for one subscriber at most
MaxLifeInFlight == 2

VARIABLES
    states,     \* states[p]: EvStateManager.#states, key -> the EvState registered
    nextInst,   \* nextInst[p]: the EvState instances process p has constructed
    ready,      \* ready[p]: EvRedisPubSub.init has subscribed and listens
    life,       \* life[p]: the lifecycle messages the transport has yet to hand to p
    lmissed,    \* a lifecycle publish found another process not listening yet
    llast       \* the last EvStateManager call and what it did

lvars == <<states, nextInst, ready, life, lmissed, llast>>

NoLifeCall == [op |-> "none", p |-> 0, key |-> "", arg |-> InitialValue, inst |-> 0, pubs |-> 0]
LifeCall(op, p, key, arg, inst, pubs) ==
    [op |-> op, p |-> p, key |-> key, arg |-> arg, inst |-> inst, pubs |-> pubs]

\* new Map(): a registry with no state
NoStates == [k \in {} |-> 0]

\* this.#states.has(channel) on the registry S
HasStateNever(S, k) == FALSE
HasState(S, k) == k \in DOMAIN S

\* createLocalState(channel, initialValue) on the registry S: the n-th EvState the
\* process constructs, registered under the key
CreateLocalState(S, k, v, n) ==
    [j \in DOMAIN S \cup {k} |-> IF j = k THEN [inst |-> n, value |-> v] ELSE S[j]]

\* removeLocalState(channel) on the registry S
RemoveLocalState(S, k) == [j \in DOMAIN S \ {k} |-> S[j]]

\* EvRedisPubSub.send: JSON.stringify({ uid: this.#instanceId, msg })
LifeEnvelope(p, msg) == [uid |-> p, msg |-> msg]

\* this.#pubsub.send(msg) of process p
PubSubSend(p, msg) ==
    /\ life' = Transmit(life, ready, LifeEnvelope(p, msg))
    /\ lmissed' = (lmissed \/ \E q \in Procs : ~ready[q])

\* createState(key, initialValue)
CreateState(p, k, v) ==
    IF HasState(states[p], k)
    THEN /\ llast' = LifeCall("createState", p, k, v, states[p][k].inst, 0)
         /\ UNCHANGED <<states, nextInst, ready, life, lmissed>>
    ELSE /\ nextInst[p] < MaxInst
         /\ HasRoom(life, MaxLifeInFlight)
         /\ nextInst' = [nextInst EXCEPT ![p] = @ + 1]
         /\ states' = [states EXCEPT ![p] = CreateLocalState(@, k, v, nextInst[p] + 1)]
         /\ PubSubSend(p, [type |-> "create", channel |-> k, initialValue |-> v])
         /\ llast' = LifeCall("createState", p, k, v, nextInst[p] + 1, 1)
         /\ UNCHANGED ready

\* removeState(key)
RemoveState(p, k) ==
    /\ HasRoom(life, MaxLifeInFlight)
    /\ states' = [states EXCEPT ![p] = RemoveLocalState(@, k)]
    /\ PubSubSend(p, [type |-> "remove", channel |-> k])
    /\ llast' = LifeCall("removeState", p, k, InitialValue, 0, 1)
    /\ UNCHANGED <<nextInst, ready>>

\* EvState.set(callback) on the state registered under k, no adapter bound
SetState(p, k, nv) ==
    /\ HasState(states[p], k)
    /\ IF ~IsEqual(nv, states[p][k].value)
       THEN states' = [states EXCEPT ![p][k].value = nv]
       ELSE UNCHANGED states
    /\ llast' = LifeCall("set", p, k, nv, 0, 0)
    /\ UNCHANGED <<nextInst, ready, life, lmissed>>

\* the n-th EvState process p constructed is in no entry of its registry: a
\* removeState or a remote 'remove' deleted its entry, and the caller of
\* createState still holds the instance
Removed(p, n) ==
    /\ n \in 1..nextInst[p]
    /\ \A k \in DOMAIN states[p] : states[p][k].inst # n

\* EvState.set(callback) on a removed instance that holds the value old; nv is
\* what callback(old) returns.  The call is recorded as setRemovedBroadcast when
\* it calls manager.send, as setRemoved when it does not.
SetRemoved(p, n, old, nv) ==
    /\ Removed(p, n)
    /\ llast' = LifeCall(IF ~IsEqual(nv, old) THEN "setRemovedBroadcast" ELSE "setRemoved",
                         p, "", InitialValue, n, 0)
    /\ UNCHANGED <<states, nextInst, ready, life, lmissed>>

\* EvRedisPubSub.init completes: the subject is subscribed, the 'message' listener
\* attached
PubSubReady(p) ==
    /\ ~ready[p]
    /\ ready' = [ready EXCEPT ![p] = TRUE]
    /\ llast' = LifeCall("ready", p, "", InitialValue, 0, 0)
    /\ UNCHANGED <<states, nextInst, life, lmissed>>

\* pubSubCallback(msg) on the registry S of a process that has constructed n
\* instances: the registry afterwards and the instances constructed
PubSubCallbackOverwrite(S, n, msg) ==
    IF ~("channel" \in DOMAIN msg /\ msg.channel \in STRING)
    THEN [S |-> S, n |-> n]
    ELSE IF msg.type = "create"
         THEN [S |-> CreateLocalState(S, msg.channel, msg.initialValue, n + 1), n |-> n + 1]
         ELSE IF msg.type = "remove"
              THEN [S |-> RemoveLocalState(S, msg.channel), n |-> n]
              ELSE [S |-> S, n |-> n]
PubSubCallback(S, n, msg) ==
    IF ~("channel" \in DOMAIN msg /\ msg.channel \in STRING)
    THEN [S |-> S, n |-> n]
    ELSE IF msg.type = "create"
         THEN IF ~HasState(S, msg.channel)
              THEN [S |-> CreateLocalState(S, msg.channel, msg.initialValue, n + 1), n |-> n + 1]
              ELSE [S |-> S, n |-> n]
         ELSE IF msg.type = "remove"
              THEN [S |-> RemoveLocalState(S, msg.channel), n |-> n]
              ELSE [S |-> S, n |-> n]

\* data?.uid !== this.#instanceId negated: the pub/sub of process p sent m itself
BridgeSelfNever(p, m) == FALSE
BridgeSelf(p, m) == "uid" \in DOMAIN m /\ m.uid = p

\* the 'message' listener of EvRedisPubSub.init on the payload m, up to the call
\* of the handler: inside the try block JSON.parse throws, or the message is the
\* instance's own, or reading data.msg of null throws, or the handler is called
PubSubListenerNoCatch(p, m) ==
    IF "raw" \in DOMAIN m THEN "threw"
    ELSE IF BridgeSelf(p, m) THEN "self"
    ELSE IF "json" \in DOMAIN m THEN "threw"
    ELSE "handler"
PubSubListener(p, m) ==
    IF "raw" \in DOMAIN m THEN "caught"
    ELSE IF BridgeSelf(p, m) THEN "self"
    ELSE IF "json" \in DOMAIN m THEN "caught"
    ELSE "handler"

\* a handler that publishes the create it materialises, as createState does
ReceiveLifeEcho(p) ==
    LET m == Head(life[p])
        r == PubSubCallback(states[p], nextInst[p], m.msg)
    IN  /\ life[p] # <<>>
        /\ IF ~BridgeSelf(p, m)
           THEN /\ r.n <= MaxInst
                /\ states' = [states EXCEPT ![p] = r.S]
                /\ nextInst' = [nextInst EXCEPT ![p] = r.n]
                /\ life' = IF r.n > nextInst[p]
                           THEN Transmit([life EXCEPT ![p] = Tail(@)], ready,
                                         LifeEnvelope(p, m.msg))
                           ELSE [life EXCEPT ![p] = Tail(@)]
                /\ llast' = LifeCall(IF m.msg.type = "create" THEN "remoteCreate"
                                                               ELSE "remoteRemove",
                                     p, m.msg.channel,
                                     IF m.msg.type = "create" THEN m.msg.initialValue
                                                              ELSE InitialValue,
                                     r.n - nextInst[p], 0)
           ELSE /\ life' = [life EXCEPT ![p] = Tail(@)]
                /\ llast' = LifeCall("dropped", p, "", InitialValue, 0, 0)
                /\ UNCHANGED <<states, nextInst>>
        /\ UNCHANGED <<ready, lmissed>>

\* Redis hands process p its oldest queued lifecycle message: the 'message'
\* listener of EvRedisPubSub.init, then the registered handler.  The call recorded
\* carries the event's key and initialValue and, as inst, the number of EvState
\* instances the handler constructed.
\* An event the handler returns from without a create or a remove is recorded as
\* ignored, a payload that threw inside the listener's try block as caught.
ReceiveLife(p) ==
    LET m == Head(life[p])
        how == PubSubListener(p, m)
        msg == Field(m, "msg")
        r == PubSubCallback(states[p], nextInst[p], msg)
        type == IF "channel" \in DOMAIN msg THEN msg.type ELSE ""
    IN  /\ life[p] # <<>>
        /\ life' = [life EXCEPT ![p] = Tail(@)]
        /\ IF how = "handler"
           THEN /\ r.n <= MaxInst
                /\ states' = [states EXCEPT ![p] = r.S]
                /\ nextInst' = [nextInst EXCEPT ![p] = r.n]
                /\ llast' = IF type \in {"create", "remove"}
                            THEN LifeCall(IF type = "create" THEN "remoteCreate"
                                                             ELSE "remoteRemove",
                                          p, msg.channel,
                                          IF type = "create" THEN msg.initialValue
                                                             ELSE InitialValue,
                                          r.n - nextInst[p], 0)
                            ELSE LifeCall("ignored", p, "", InitialValue,
                                          r.n - nextInst[p], 0)
           ELSE /\ llast' = LifeCall(IF how \in {"caught", "threw"} THEN how ELSE "dropped",
                                     p, "", InitialValue, 0, 0)
                /\ UNCHANGED <<states, nextInst>>
        /\ UNCHANGED <<ready, lmissed>>

(* -------------- EvStateManager with an adapter bound ------------------ *)

VARIABLES
    held        \* held[p][n]: EvState.#value of the n-th EvState process p constructed

xvars == <<held>>

\* the instances of the other specifications: not looked at
InstancesAtRest == held = [p \in Procs |-> <<>>]

\* new EvState({ channel, initialValue, manager, adapter }) for every instance a
\* call constructed: the instance holds the initial value and subscribes its
\* handler to the adapter
Constructed(H, p, before, after, v) ==
    IF after > before THEN [H EXCEPT ![p] = Append(@, v)] ELSE H

\* createState(key, initialValue) of a manager with an adapter
CreateStateHeld(p, k, v) ==
    /\ CreateState(p, k, v)
    /\ held' = Constructed(held, p, nextInst[p], nextInst'[p], v)

\* a lifecycle message reaches the manager of process p
ReceiveLifeHeld(p) ==
    /\ ReceiveLife(p)
    /\ held' = Constructed(held, p, nextInst[p], nextInst'[p],
                           Field(Field(Head(life[p]), "msg"), "initialValue"))

\* The transport subscription of process p's adapter completes: the first
\* EvState's subscribe made it, the later ones found the channel's entry and
\* added their handlers at once, so every instance constructed is a handler.
SubscribeHeld(p) ==
    /\ nextInst[p] > 0
    /\ SubscribeDone(p)

\* EvState.set(callback) on the instance getState(k) returns; nv is what
\* callback(this.#value) returns
SetHeld(p, k, nv) ==
    /\ HasState(states[p], k)
    /\ LET n == states[p][k].inst
       IN  IF ~IsEqual(nv, held[p][n])
           THEN /\ held' = [held EXCEPT ![p][n] = nv]
                /\ net' = Transmit(net, subscribed, Envelope(p, Wrap(nv)))
                /\ missed' = (missed \/ \E q \in Procs : ~subscribed[q])
                /\ slast' = StateCall("set", p, nv, 1, 1)
           ELSE /\ slast' = StateCall("set", p, nv, 0, 0)
                /\ UNCHANGED <<held, net, missed>>
    /\ UNCHANGED <<adapterBound, value, subscribed>>

\* handlers.forEach((handler) => handler(parsed?.message)) over the instances
\* with the values vs: the values afterwards and the manager.send calls made
HandlersForEach(vs, data) ==
    [values |-> [n \in 1..Len(vs) |-> HandleRemoteUpdate(vs[n], data).value],
     sends |-> Cardinality({n \in 1..Len(vs) : HandleRemoteUpdate(vs[n], data).sends = 1})]

\* Redis hands process p's adapter its oldest queued message: the 'message'
\* listener of the EvRedisAdapter constructor, then every handler of the channel
ReceiveHeld(p) ==
    LET m == Head(net[p])
        how == AdapterListener(p, m)
        data == Field(m, "message")
        r == HandlersForEach(held[p], data)
    IN  /\ net[p] # <<>>
        /\ net' = [net EXCEPT ![p] = Tail(@)]
        /\ IF how = "handler"
           THEN /\ held' = [held EXCEPT ![p] = r.values]
                /\ slast' = StateCall("remote", p, data[WrapKey], r.sends, 0)
           ELSE /\ slast' = StateCall("dropped", p, InitialValue, 0, 0)
                /\ UNCHANGED held
        /\ UNCHANGED <<adapterBound, value, subscribed, missed>>

(* ----------------- EvStreamManager with a bridge bound ---------------- *)

\* the values of an EvMessage's data: a string, or an object given by its fields
Str(s) == [t |-> "string", s |-> s]
Obj(o) == [t |-> "object", o |-> o]

\* the messages the callers send
Messages ==
    { [event |-> "update", data |-> Obj([x |-> 1])],
      [event |-> "update", data |-> Str("hi")],
      [event |-> "update", data |-> Obj([ch |-> "chat", x |-> 1])] }

\* bridge messages the transport holds for one subscriber at most
MaxRelayInFlight == 1

VARIABLES
    joined,     \* joined[p]: the channels of #listeners on which p's connection listens
    bready,     \* bready[p]: the init of the manager's EvRedisPubSub has completed
    bnet,       \* bnet[p]: the bridge messages the transport has yet to hand to p
    rlast       \* the last send or bridge delivery and what it did

rvars == <<joined, bready, bnet, rlast>>

NoMessage == [event |-> "", data |-> Str("")]
NoRelayCall ==
    [op |-> "none", p |-> 0, name |-> "", msg |-> NoMessage, wrote |-> {}, pubs |-> 0,
     unhandled |-> FALSE]
RelayCall(op, p, name, msg, wrote, pubs, unhandled) ==
    [op |-> op, p |-> p, name |-> name, msg |-> msg, wrote |-> wrote, pubs |-> pubs,
     unhandled |-> unhandled]

\* what sendLocal hands to client.message: { ...msg, data: ... } with the channel
\* name put into the data
WrapLocal(name, msg) ==
    [msg EXCEPT !.data = IF msg.data.t = "string"
                         THEN Obj([ch |-> name, data |-> msg])
                         ELSE Obj(msg.data.o @@ ("ch" :> name))]

\* sendLocal(name, msg) on a manager whose one connection listens on the channels
\* J: the messages written to the connection
SendLocalTo(J, name, msg) ==
    IF name \notin J THEN {} ELSE {WrapLocal(name, msg)}

\* the object send() hands to this.#pubSub.send
RelayOfWrapped(name, msg) == [name |-> name, message |-> WrapLocal(name, msg)]
RelayOf(name, msg) == [name |-> name, message |-> msg]

\* createStream and listen(name) on process p, taken together
Join(p, name) ==
    /\ name \notin joined[p]
    /\ joined' = [joined EXCEPT ![p] = @ \cup {name}]
    /\ rlast' = RelayCall("join", p, name, NoMessage, {}, 0, FALSE)
    /\ UNCHANGED <<bready, bnet>>

\* EvRedisPubSub.init of the manager's bridge completes
BridgeReady(p) ==
    /\ ~bready[p]
    /\ bready' = [bready EXCEPT ![p] = TRUE]
    /\ rlast' = RelayCall("ready", p, "", NoMessage, {}, 0, FALSE)
    /\ UNCHANGED <<joined, bnet>>

\* send(name, msg) of process p's manager, a bridge bound.  rejects: the promise
\* of this.#pubSub.send rejects (the transport's publish fails); send() neither
\* awaits the promise nor attaches a handler to it.
SendRelay(p, name, msg, rejects) ==
    /\ HasRoom(bnet, MaxRelayInFlight)
    /\ IF rejects
       THEN /\ rlast' = RelayCall("send", p, name, msg, SendLocalTo(joined[p], name, msg), 0, TRUE)
            /\ UNCHANGED bnet
       ELSE /\ bnet' = Transmit(bnet, bready, LifeEnvelope(p, RelayOf(name, msg)))
            /\ rlast' = RelayCall("send", p, name, msg, SendLocalTo(joined[p], name, msg), 1, FALSE)
    /\ UNCHANGED <<joined, bready>>

\* #onMessage(msg) of process p's manager: the messages written locally
OnMessage(J, msg) ==
    IF ~("name" \in DOMAIN msg /\ "message" \in DOMAIN msg)
    THEN {}
    ELSE SendLocalTo(J, msg.name, msg.message)

\* a bridge whose handler calls send instead of sendLocal
BridgeReceiveRepublish(p) ==
    LET m == Head(bnet[p]) IN
    /\ bnet[p] # <<>>
    /\ IF BridgeSelf(p, m)
       THEN /\ bnet' = [bnet EXCEPT ![p] = Tail(@)]
            /\ rlast' = RelayCall("dropped", p, m.msg.name, NoMessage, {}, 0, FALSE)
       ELSE /\ bnet' = Transmit([bnet EXCEPT ![p] = Tail(@)], bready, LifeEnvelope(p, m.msg))
            /\ rlast' = RelayCall("relayed", p, m.msg.name, m.msg.message,
                                  OnMessage(joined[p], m.msg), 1, FALSE)
    /\ UNCHANGED <<joined, bready>>

\* Redis hands process p's bridge its oldest queued message
\* A payload that #onMessage returns from at its first test is recorded as
\* ignored, one that threw inside the listener's try block as caught.
BridgeReceive(p) ==
    LET m == Head(bnet[p])
        how == PubSubListener(p, m)
        msg == Field(m, "msg")
        name == IF "name" \in DOMAIN msg THEN msg.name ELSE ""
    IN
    /\ bnet[p] # <<>>
    /\ bnet' = [bnet EXCEPT ![p] = Tail(@)]
    /\ rlast' = IF how # "handler"
                THEN RelayCall(IF how \in {"caught", "threw"} THEN how ELSE "dropped",
                               p, name, NoMessage, {}, 0, how = "threw")
                ELSE IF "name" \in DOMAIN msg /\ "message" \in DOMAIN msg
                THEN RelayCall("relayed", p, name, msg.message, OnMessage(joined[p], msg),
                               0, FALSE)
                ELSE RelayCall("ignored", p, name, NoMessage, OnMessage(joined[p], msg),
                               0, FALSE)
    /\ UNCHANGED <<joined, bready>>

(* ------- an EvState with an adapter on a manager with a bridge -------- *)

\* the channel of the EvState, on which the clients listen
StateChannel == "news"
\* value-changing set calls looked at
MaxSets == 2

VARIABLES
    written,        \* written[p][v]: how often v was written to the client of process p
    sets        \* sets[v]: the set calls that changed a process's state to v

dvars == <<written, sets>>

\* the deliveries of the other specifications: not looked at
DeliveriesAtRest ==
    /\ written = [p \in Procs |-> [v \in Values |-> 0]]
    /\ sets = [v \in Values |-> 0]

\* { event: this.#channel, data: { [this.#key]: newValue } }
StateMessage(v) == [event |-> StateChannel, data |-> Obj(Wrap(v))]

\* client.message(...) for every message of ws, counted by the value it carries
CountWritten(G, p, ws) ==
    [G EXCEPT ![p] = [v \in Values |->
        @[v] + Cardinality({w \in ws : w.data.o[WrapKey] = v})]]

\* this.#manager.send(this.#channel, StateMessage(v)) on process p: sendLocal and
\* the publish on the bridge
ManagerSend(p, v) ==
    /\ written' = CountWritten(written, p, SendLocalTo(joined[p], StateChannel, StateMessage(v)))
    /\ bnet' = Transmit(bnet, bready, LifeEnvelope(p, RelayOf(StateChannel, StateMessage(v))))
    /\ rlast' = RelayCall("send", p, StateChannel, StateMessage(v),
                          SendLocalTo(joined[p], StateChannel, StateMessage(v)), 1, FALSE)

\* EvState.set(callback) with the adapter and the bridge bound; nv is what
\* callback(this.#value) returns
SetBridged(p, nv) ==
    /\ IF ~IsEqual(nv, value[p])
       THEN /\ value' = [value EXCEPT ![p] = nv]
            /\ ManagerSend(p, nv)
            /\ net' = Transmit(net, subscribed, Envelope(p, Wrap(nv)))
            /\ missed' = (missed \/ \E q \in Procs : ~subscribed[q])
            /\ slast' = StateCall("set", p, nv, 1, 1)
            /\ sets' = [sets EXCEPT ![nv] = @ + 1]
       ELSE /\ slast' = StateCall("set", p, nv, 0, 0)
            /\ UNCHANGED <<value, net, missed, written, sets, bnet, rlast>>
    /\ UNCHANGED <<adapterBound, subscribed, joined, bready>>

\* Redis hands process p's adapter its oldest queued update: the 'message'
\* listener, then #handleRemoteUpdate, which calls manager.send
ReceiveBridged(p) ==
    LET m == Head(net[p])
        how == AdapterListener(p, m)
        data == Field(m, "message")
        r == HandleRemoteUpdate(value[p], data)
    IN  /\ net[p] # <<>>
        /\ net' = [net EXCEPT ![p] = Tail(@)]
        /\ IF how = "handler" /\ r.sends = 1
           THEN /\ value' = [value EXCEPT ![p] = r.value]
                /\ ManagerSend(p, r.value)
                /\ slast' = StateCall("remote", p, r.value, 1, 0)
           ELSE /\ slast' = StateCall(IF how = "handler" THEN "remote" ELSE "dropped",
                                      p, InitialValue, 0, 0)
                /\ UNCHANGED <<value, written, bnet, rlast>>
        /\ UNCHANGED <<adapterBound, subscribed, missed, sets, joined, bready>>

\* Redis hands process p's bridge its oldest queued message: for a message of
\* another process #onMessage calls sendLocal, and what it wrote is counted
BridgeReceiveWritten(p) ==
    /\ BridgeReceive(p)
    /\ written' = CountWritten(written, p, rlast'.wrote)
    /\ UNCHANGED sets

(* --------------- payloads of other publishers on a channel ------------- *)

\* messages of other publishers a transport holds for one subscriber at most
MaxForeign == 1

\* What another client of the Redis server may publish on the channel of an
\* EvState: no JSON, null, an envelope without a message, and messages that are
\* no object or an object without the wrap key.
ForeignUpdates ==
    { NotJson, JsonNull, [id |-> 0],
      [id |-> 0, message |-> Str("hi")],
      [id |-> 0, message |-> [other |-> [n |-> 1]]] }

\* ... on the lifecycle subject: no JSON, null, an envelope without msg, an event
\* without a channel and an event of an unknown type
ForeignLifeEvents ==
    { NotJson, JsonNull, [uid |-> 0],
      [uid |-> 0, msg |-> [type |-> "create", initialValue |-> [n |-> 1]]],
      [uid |-> 0, msg |-> [type |-> "rename", channel |-> "user-count"]] }

\* ... on the subject of the managers' bridge: no JSON, null, an envelope without
\* msg, a broadcast without message and one without name
ForeignBroadcasts ==
    { NotJson, JsonNull, [uid |-> 0],
      [uid |-> 0, msg |-> [name |-> "news"]],
      [uid |-> 0, msg |-> [message |-> [event |-> "update", data |-> Str("hi")]]] }

\* another publisher's PUBLISH on the channel of the EvState
InjectUpdate(m) ==
    /\ HasRoom(net, MaxForeign)
    /\ net' = Transmit(net, subscribed, m)
    /\ slast' = StateCall("foreign", 0, InitialValue, 0, 0)
    /\ UNCHANGED <<adapterBound, value, subscribed, missed>>

\* another publisher's PUBLISH on the lifecycle subject
InjectLife(m) ==
    /\ HasRoom(life, MaxForeign)
    /\ life' = Transmit(life, ready, m)
    /\ llast' = LifeCall("foreign", 0, "", InitialValue, 0, 0)
    /\ UNCHANGED <<states, nextInst, ready, lmissed>>

\* another publisher's PUBLISH on the bridge's subject
InjectBroadcast(m) ==
    /\ HasRoom(bnet, MaxForeign)
    /\ bnet' = Transmit(bnet, bready, m)
    /\ rlast' = RelayCall("foreign", 0, "", NoMessage, {}, 0, FALSE)
    /\ UNCHANGED <<joined, bready>>

(* ------- one EvRedisPubSub shared by a manager and a state manager ----- *)

\* who registers a handler on an EvRedisPubSub: the caller (through the
\* constructor's options.onMessage or through onMessage), the constructor of an
\* EvStreamManager, the constructor of an EvStateManager
Handlers == {"user", "manager", "states"}

VARIABLES
    handler,    \* handler[p]: the function in #onMessage of p's pub/sub, "none" if unset
    regs,       \* regs[p]: the last two handlers registered on p's pub/sub, in order
    invoked     \* the handlers the last delivery called, in order

pvars == <<handler, regs, invoked>>

\* what the manager and the state manager send through the shared instance
SharedMessages ==
    { [name |-> "news", message |-> [event |-> "update", data |-> Str("hi")]],
      [type |-> "create", channel |-> "user-count", initialValue |-> [n |-> 1]] }

\* onMessage(callback) on an instance whose handler is old
SetHandlerKeepFirst(old, callback) == IF old = "none" THEN callback ELSE old
SetHandler(old, callback) == callback

\* this.#onMessage?.(data.msg): the handlers called
Invoke(h) == IF h = "none" THEN <<>> ELSE <<h>>

\* pubsub.onMessage(h) on process p's instance
RegisterHandler(p, h) ==
    /\ handler' = [handler EXCEPT ![p] = SetHandler(@, h)]
    /\ regs' = [regs EXCEPT ![p] = IF Len(@) < 2 THEN Append(@, h) ELSE <<@[2], h>>]
    /\ invoked' = <<>>
    /\ rlast' = RelayCall("onMessage", p, "", NoMessage, {}, 0, FALSE)
    /\ UNCHANGED <<joined, bready, bnet>>

\* pubsub.send(msg) on process p's instance
SharedSend(p, msg) ==
    /\ HasRoom(bnet, MaxRelayInFlight)
    /\ bnet' = Transmit(bnet, bready, LifeEnvelope(p, msg))
    /\ invoked' = <<>>
    /\ rlast' = RelayCall("send", p, "", NoMessage, {}, 1, FALSE)
    /\ UNCHANGED <<handler, regs, joined, bready>>

\* Redis hands process p's instance its oldest queued message: the 'message'
\* listener of EvRedisPubSub.init, then the handler in #onMessage.  Of what the
\* handlers do, the writes of the manager's #onMessage are recorded.
SharedReceive(p) ==
    LET m == Head(bnet[p])
        how == PubSubListener(p, m)
        msg == Field(m, "msg")
        called == IF how = "handler" THEN Invoke(handler[p]) ELSE <<>>
    IN
    /\ bnet[p] # <<>>
    /\ bnet' = [bnet EXCEPT ![p] = Tail(@)]
    /\ invoked' = called
    /\ rlast' = RelayCall(IF how = "handler" THEN "delivered" ELSE "dropped", p, "",
                          NoMessage,
                          IF called = <<"manager">> THEN OnMessage(joined[p], msg) ELSE {},
                          0, FALSE)
    /\ UNCHANGED <<handler, regs, joined, bready>>

(* --------------- EvRedisAdapter: subscribe and its handlers ------------ *)

\* the handlers callers pass to subscribe
MaxHandlers == 2
AHandlers == 1..MaxHandlers

\* messages the transport holds for the adapter at most
MaxAdapterQueue == 2

\* the process whose adapter is looked at
Self == 1

VARIABLES
    adapter,    \* one channel of the adapter: entry (#listeners has the channel), hs
                \* (the Set of the entry, in insertion order), pend (the subscribe
                \* calls that await the transport), tcalls (the calls of
                \* this.#sub.subscribe made), active (Redis has the subscription),
                \* unsub (an unsubscribe call awaits the transport)
    resolved,   \* the handlers whose subscribe call has resolved, with no
                \* unsubscribe call after it
    anet,       \* the messages Redis has yet to hand to the adapter
    alast       \* the last call or delivery, and how often it called each handler

avars == <<adapter, resolved, anet, alast>>

NewAdapter ==
    [entry |-> FALSE, hs |-> <<>>, pend |-> {}, tcalls |-> 0, active |-> FALSE,
     unsub |-> FALSE]
NoAdapterCall == [op |-> "none", h |-> 0, got |-> [h \in AHandlers |-> 0]]
AdapterCall(op, h, got) == [op |-> op, h |-> h, got |-> got]

\* Set.prototype.add on a Set kept in insertion order
SetAdd(hs, h) == IF \E i \in 1..Len(hs) : hs[i] = h THEN hs ELSE Append(hs, h)

\* handlers.forEach((handler) => handler(...)): how often each handler is called
CallsOf(hs) == [h \in AHandlers |-> Cardinality({i \in 1..Len(hs) : hs[i] = h})]

\* subscribe(channel, h) up to its end or its await: without an entry the entry
\* is made and the transport subscription awaited, with one the handler is added
SubscribeStartNoEntry(a, h) ==
    IF ~a.entry
    THEN [a EXCEPT !.tcalls = @ + 1, !.pend = @ \cup {h}]
    ELSE [a EXCEPT !.hs = SetAdd(@, h)]
SubscribeStart(a, h) ==
    IF ~a.entry
    THEN [a EXCEPT !.entry = TRUE, !.tcalls = @ + 1, !.pend = @ \cup {h}]
    ELSE [a EXCEPT !.hs = SetAdd(@, h)]

\* adapter.subscribe(channel, h)
AdapterSubscribe(h) ==
    /\ h \notin adapter.pend
    /\ adapter.tcalls < MaxHandlers
    /\ adapter' = SubscribeStart(adapter, h)
    /\ resolved' = IF adapter.entry THEN resolved \cup {h} ELSE resolved
    /\ alast' = AdapterCall("subscribe", h, [g \in AHandlers |-> 0])
    /\ UNCHANGED anet

\* Redis registers the subscription a call awaits
TransportActive ==
    /\ adapter.pend # {}
    /\ ~adapter.active
    /\ adapter' = [adapter EXCEPT !.active = TRUE]
    /\ alast' = AdapterCall("active", 0, [g \in AHandlers |-> 0])
    /\ UNCHANGED <<resolved, anet>>

\* the await of subscribe(channel, h) ends: the transport's promise resolved and
\* the handler is added, or it rejected and subscribe rejects
SubscribeResume(h, ok) ==
    /\ h \in adapter.pend
    /\ ok <=> adapter.active
    /\ adapter' = [adapter EXCEPT !.pend = @ \ {h},
                                  !.hs = IF ok THEN SetAdd(@, h) ELSE @]
    /\ resolved' = IF ok THEN resolved \cup {h} ELSE resolved
    /\ alast' = AdapterCall(IF ok THEN "subscribed" ELSE "rejected", h,
                            [g \in AHandlers |-> 0])
    /\ UNCHANGED anet

\* a process publishes v on the channel
AdapterPublish(p, v) ==
    /\ Len(anet) < MaxAdapterQueue
    /\ anet' = IF adapter.active THEN Append(anet, Envelope(p, Wrap(v))) ELSE anet
    /\ alast' = AdapterCall("publish", 0, [g \in AHandlers |-> 0])
    /\ UNCHANGED <<adapter, resolved>>

\* Redis hands the adapter its oldest queued message: the 'message' listener of
\* the constructor
AdapterDeliver ==
    LET m == Head(anet)
        how == IF ~adapter.entry THEN "none" ELSE AdapterListener(Self, m)
    IN
    /\ anet # <<>>
    /\ anet' = Tail(anet)
    /\ alast' = IF how = "handler"
                THEN AdapterCall("deliver", 0, CallsOf(adapter.hs))
                ELSE AdapterCall("dropped", 0, [g \in AHandlers |-> 0])
    /\ UNCHANGED <<adapter, resolved>>

\* the entry of the channel is deleted: this.#listeners.delete(channel)
DeleteEntry(a) ==
    [a EXCEPT !.entry = FALSE, !.hs = <<>>, !.unsub = FALSE, !.active = FALSE]

\* adapter.unsubscribe(channel) up to its await, called for a channel that has an
\* entry while no subscribe awaits the transport
AdapterUnsubscribe ==
    /\ adapter.entry
    /\ adapter.pend = {}
    /\ ~adapter.unsub
    /\ adapter' = [adapter EXCEPT !.unsub = TRUE]
    /\ resolved' = {}
    /\ alast' = AdapterCall("unsubscribe", 0, [g \in AHandlers |-> 0])
    /\ UNCHANGED anet

\* the await of unsubscribe(channel) ends: Redis has dropped the subscription,
\* and the channel's entry is deleted with every handler in it
UnsubscribeResume ==
    /\ adapter.unsub
    /\ adapter' = DeleteEntry(adapter)
    /\ alast' = AdapterCall("unsubscribed", 0, [g \in AHandlers |-> 0])
    /\ UNCHANGED <<resolved, anet>>

(* ---------------------- message() and Evstream ------------------------ *)

\* the order in which JSON.stringify meets the keys of the objects of the model:
\* sendLocal puts ch first
KeyOrder == <<"ch", "x", "n", "message", "value", "data">>

\* JSON.stringify of an object o given by its fields, of an EvMessage m, and of a
\* message's data d
RECURSIVE JsonFields(_, _, _)
RECURSIVE JsonMessage(_)
JsonData(d) ==
    IF d.t = "string" THEN ToString(d.s) ELSE "{" \o JsonFields(d.o, 1, "") \o "}"
JsonMessage(m) ==
    "{" \o (IF m.event # "" THEN "\"event\":" \o ToString(m.event) \o "," ELSE "")
        \o "\"data\":" \o JsonData(m.data) \o "}"
JsonFields(o, i, sep) ==
    IF i > Len(KeyOrder) THEN ""
    ELSE LET k == KeyOrder[i] IN
         IF k \notin DOMAIN o THEN JsonFields(o, i + 1, sep)
         ELSE sep \o ToString(k) \o ":"
                  \o (IF k = "data" THEN JsonMessage(o[k])
                      ELSE IF k = "value" THEN "{" \o JsonFields(o[k], 1, "") \o "}"
                      ELSE ToString(o[k]))
                  \o JsonFields(o, i + 1, ",")

\* safeJsonParse(val): a string as it is, an object as its JSON text
SafeJsonParse(val) ==
    IF val.t = "string" THEN val.s ELSE "{" \o JsonFields(val.o, 1, "") \o "}"

\* msg.id is given and not empty
HasId(msg) == "id" \in DOMAIN msg /\ msg.id # ""

\* message(msg): the text written to the sink
Message(msg) ==
    LET event == "event:" \o (IF msg.event # "" THEN msg.event ELSE "message") \o "\n"
        data == "data:" \o SafeJsonParse(msg.data) \o "\n"
        id == IF HasId(msg) THEN "id:" \o msg.id \o "\n" ELSE ""
    IN  IF data = ""
        THEN id \o event \o "\n"
        ELSE id \o event \o data \o "\n"

\* the messages a caller writes with Evstream.message
StreamMessages ==
    { [event |-> "update", data |-> Obj([x |-> 1]), id |-> "7"],
      [event |-> "", data |-> Str("hi"), id |-> ""],
      [event |-> "ping", data |-> Str(""), id |-> ""] }

\* what authentication.verify resolves to
Verdicts == {"true", "false", "message", "undefined", "null"}
\* the EvMessage a verifier answers with
AuthReply == [event |-> "welcome", data |-> Obj([x |-> 1]), id |-> ""]
\* the events Evstream writes itself
AuthFailed == [event |-> "error", data |-> Obj([message |-> "authentication failed"])]
EndEvent == [event |-> "end", data |-> Str("")]
HeartbeatEvent == [event |-> "heartbeat", data |-> Str("")]

\* the frames one sink is written at most
MaxWrites == 2

VARIABLES
    eopts,          \* the opts the Evstream was constructed with
    timer,          \* #heartbeatInterval is set
    closeHandler,   \* #onCloseHandler is registered on the sink
    authPending,    \* an authenticate() awaits the verifier
    sink,           \* the ServerResponse: ended, the frames written, writes after the end
    elast           \* the last Evstream call and its outcome

evars == <<eopts, timer, closeHandler, authPending, sink, elast>>

\* new Evstream(req, res): opts missing, or given with or without a heartbeat and
\* an authentication
StreamOptions ==
    {[given |-> FALSE, heartbeat |-> FALSE, auth |-> FALSE]}
        \cup [given : {TRUE}, heartbeat : BOOLEAN, auth : BOOLEAN]

NoStreamCall == [op |-> "none", arg |-> "", msg |-> NoMessage, result |-> "", wrote |-> <<>>,
                 ended |-> FALSE]
StreamCall(op, arg, msg, result, wrote, ended) ==
    [op |-> op, arg |-> arg, msg |-> msg, result |-> result, wrote |-> wrote, ended |-> ended]

\* this.#res.write(frame): after res.end() the frame is not sent
Write(r, frame) ==
    IF r.ended THEN [r EXCEPT !.late = TRUE] ELSE [r EXCEPT !.out = Append(@, frame)]
\* the frames a call that wrote fs on the sink r got through
Wrote(r, fs) == IF r.ended THEN <<>> ELSE fs
\* this.#res.end()
End(r) == [r EXCEPT !.ended = TRUE]
\* there is room on the sink for one more frame
CanWrite == Len(sink.out) < MaxWrites

\* authenticate() up to its await: without opts the read of
\* this.#opts.authentication throws; without an authentication the call returns
\* undefined; otherwise it awaits the verifier
Authenticate ==
    /\ ~authPending
    /\ IF ~eopts.given
       THEN /\ elast' = StreamCall("authenticate", "", NoMessage, "TypeError", <<>>, FALSE)
            /\ UNCHANGED authPending
       ELSE IF ~eopts.auth
            THEN /\ elast' = StreamCall("authenticate", "", NoMessage, "undefined", <<>>, FALSE)
                 /\ UNCHANGED authPending
            ELSE /\ authPending' = TRUE
                 /\ elast' = StreamCall("verify", "", NoMessage, "pending", <<>>, FALSE)
    /\ UNCHANGED <<eopts, timer, closeHandler, sink>>

\* authenticate() from the verifier's answer on: what it returns, the sink and
\* the timer afterwards
AuthOutcome(verdict, r, t) ==
    IF verdict = "false"
    THEN [result |-> "false", sink |-> End(Write(r, Message(AuthFailed))), timer |-> FALSE,
          wrote |-> Wrote(r, <<Message(AuthFailed)>>)]
    ELSE IF verdict = "true"
    THEN [result |-> "true", sink |-> r, timer |-> t, wrote |-> <<>>]
    ELSE IF verdict = "message"
    THEN [result |-> "true", sink |-> Write(r, Message(AuthReply)), timer |-> t,
          wrote |-> Wrote(r, <<Message(AuthReply)>>)]
    ELSE IF verdict = "null"
    THEN \* typeof null is 'object': this.message(null) reads null.event
         [result |-> "TypeError", sink |-> r, timer |-> t, wrote |-> <<>>]
    ELSE [result |-> "false", sink |-> r, timer |-> t, wrote |-> <<>>]

\* the verifier answers and authenticate() runs to its end
AuthFinish(verdict) ==
    LET o == AuthOutcome(verdict, sink, timer) IN
    /\ authPending
    /\ CanWrite
    /\ authPending' = FALSE
    /\ sink' = o.sink
    /\ timer' = o.timer
    /\ elast' = StreamCall("authenticate", verdict, NoMessage, o.result, o.wrote,
                           o.sink.ended /\ ~sink.ended)
    /\ UNCHANGED <<eopts, closeHandler>>

\* Evstream.message(msg)
StreamMessage(msg) ==
    /\ CanWrite
    /\ sink' = Write(sink, Message(msg))
    /\ elast' = StreamCall("message", "", msg, "ok", Wrote(sink, <<Message(msg)>>), FALSE)
    /\ UNCHANGED <<eopts, timer, closeHandler, authPending>>

\* Evstream.close()
StreamClose ==
    /\ CanWrite
    /\ timer' = FALSE
    /\ closeHandler' = FALSE
    /\ sink' = End(Write(sink, Message(EndEvent)))
    /\ elast' = StreamCall("close", "", EndEvent, "ok", Wrote(sink, <<Message(EndEvent)>>),
                           ~sink.ended)
    /\ UNCHANGED <<eopts, authPending>>

\* the heartbeat interval fires
Heartbeat ==
    /\ timer
    /\ CanWrite
    /\ sink' = Write(sink, Message(HeartbeatEvent))
    /\ elast' = StreamCall("heartbeat", "", HeartbeatEvent, "ok",
                           Wrote(sink, <<Message(HeartbeatEvent)>>), FALSE)
    /\ UNCHANGED <<eopts, timer, closeHandler, authPending>>

\* the sink emits 'close': #onCloseHandler, if still registered, clears the
\* heartbeat
StreamSinkClose ==
    /\ ~sink.closeEmitted
    /\ sink' = [sink EXCEPT !.closeEmitted = TRUE]
    /\ timer' = IF closeHandler THEN FALSE ELSE timer
    /\ elast' = StreamCall("sinkClose", "", NoMessage, "ok", <<>>, FALSE)
    /\ UNCHANGED <<eopts, closeHandler, authPending>>

(* ------------------- a managed connection's handle -------------------- *)

VARIABLES
    handle,   \* createStream's closure over one connection: isClosed, the manager's
              \* 'close' listener on the sink, the connection's share of #count, its
              \* #clients entry, the channels array and its entries in #listeners
    steps     \* the statements the last close ran, in the order they ran

hvars == <<handle, steps>>

\* no connection was made
NoHandle == [isClosed |-> FALSE, closeListener |-> FALSE, counted |-> FALSE,
             registered |-> FALSE, channels |-> {}, indexed |-> {}]
\* createStream has returned the handle
NewHandle == [isClosed |-> FALSE, closeListener |-> TRUE, counted |-> TRUE,
              registered |-> TRUE, channels |-> {}, indexed |-> {}]

\* the statements of Evstream.close(), in source order
EvstreamCloseSteps == <<"clearHeartbeat", "removeCloseListener", "end", "res.end">>

\* the statements of the manager's close(onClose), in source order, client.close()
\* expanded in place; an onClose that throws ends the call
CloseSteps(cb) ==
    LET rest == <<"removeAllListeners">> \o EvstreamCloseSteps
                    \o <<"count", "unlisten", "channels.length", "clients.delete", "endIfOpen">>
    IN  IF cb = "throws" THEN <<"isClosed", "onClose">>
        ELSE IF cb = "returns" THEN <<"isClosed", "onClose">> \o rest
        ELSE <<"isClosed">> \o rest

\* a close that leaves the heartbeat interval running
ApplyStepKeepTimer(name, st) ==
    IF name = "isClosed" THEN [st EXCEPT !.handle.isClosed = TRUE]
    ELSE IF name = "removeAllListeners"
    THEN [st EXCEPT !.closeHandler = FALSE, !.handle.closeListener = FALSE]
    ELSE IF name = "removeCloseListener" THEN [st EXCEPT !.closeHandler = FALSE]
    ELSE IF name = "end" THEN [st EXCEPT !.sink = Write(@, Message(EndEvent))]
    ELSE IF name = "res.end" THEN [st EXCEPT !.sink = End(@)]
    ELSE IF name = "count" THEN [st EXCEPT !.handle.counted = FALSE]
    ELSE IF name = "unlisten"
    THEN [st EXCEPT !.handle.indexed = @ \ st.handle.channels]
    ELSE IF name = "channels.length" THEN [st EXCEPT !.handle.channels = {}]
    ELSE IF name = "clients.delete" THEN [st EXCEPT !.handle.registered = FALSE]
    ELSE IF name = "endIfOpen" THEN [st EXCEPT !.sink = End(@)]
    ELSE st

\* one statement of a close, on st = [timer, closeHandler, sink, handle]
ApplyStep(name, st) ==
    IF name = "isClosed" THEN [st EXCEPT !.handle.isClosed = TRUE]
    ELSE IF name = "removeAllListeners"
    THEN [st EXCEPT !.closeHandler = FALSE, !.handle.closeListener = FALSE]
    ELSE IF name = "clearHeartbeat" THEN [st EXCEPT !.timer = FALSE]
    ELSE IF name = "removeCloseListener" THEN [st EXCEPT !.closeHandler = FALSE]
    ELSE IF name = "end" THEN [st EXCEPT !.sink = Write(@, Message(EndEvent))]
    ELSE IF name = "res.end" THEN [st EXCEPT !.sink = End(@)]
    ELSE IF name = "count" THEN [st EXCEPT !.handle.counted = FALSE]
    ELSE IF name = "unlisten"
    THEN [st EXCEPT !.handle.indexed = @ \ st.handle.channels]
    ELSE IF name = "channels.length" THEN [st EXCEPT !.handle.channels = {}]
    ELSE IF name = "clients.delete" THEN [st EXCEPT !.handle.registered = FALSE]
    ELSE IF name = "endIfOpen" THEN [st EXCEPT !.sink = End(@)]
    ELSE st

\* the statements ss run one after the other from st
RECURSIVE RunSteps(_, _)
RunSteps(ss, st) ==
    IF ss = <<>> THEN st ELSE RunSteps(Tail(ss), ApplyStep(Head(ss), st))

\* the handle's close(onClose) on the state st: the statements it runs and the
\* state it leaves
RunClose(cb, st) ==
    IF st.handle.isClosed THEN [steps |-> <<>>, st |-> st]
    ELSE [steps |-> CloseSteps(cb), st |-> RunSteps(CloseSteps(cb), st)]

HandleState == [timer |-> timer, closeHandler |-> closeHandler, sink |-> sink, handle |-> handle]

\* handle.close(onClose)
HandleClose(cb) ==
    LET r == RunClose(cb, HandleState) IN
    /\ handle.registered \/ handle.isClosed
    /\ CanWrite
    /\ steps' = r.steps
    /\ handle' = r.st.handle
    /\ timer' = r.st.timer
    /\ closeHandler' = r.st.closeHandler
    /\ sink' = r.st.sink
    /\ elast' = StreamCall("handleClose", cb, NoMessage,
                           IF r.steps = <<>> THEN "noop"
                           ELSE IF cb = "throws" THEN "threw" ELSE "ok",
                           IF Len(r.st.sink.out) > Len(sink.out)
                           THEN <<Message(EndEvent)>> ELSE <<>>,
                           r.st.sink.ended /\ ~sink.ended)
    /\ UNCHANGED <<eopts, authPending>>

\* the sink emits 'close': the listeners registered at that moment run in the
\* order of their registration, the Evstream's #onCloseHandler (constructor)
\* before the manager's close (createStream)
HandleSinkClose ==
    LET st0 == [HandleState EXCEPT !.sink.closeEmitted = TRUE,
                                   !.timer = IF closeHandler THEN FALSE ELSE @]
        r == IF handle.closeListener THEN RunClose("none", st0)
             ELSE [steps |-> <<>>, st |-> st0]
    IN
    /\ ~sink.closeEmitted
    /\ CanWrite
    /\ steps' = (IF closeHandler THEN <<"onCloseHandler">> ELSE <<>>) \o r.steps
    /\ handle' = r.st.handle
    /\ timer' = r.st.timer
    /\ closeHandler' = r.st.closeHandler
    /\ sink' = r.st.sink
    /\ elast' = StreamCall("sinkClose", "", NoMessage, "ok",
                           IF Len(r.st.sink.out) > Len(sink.out)
                           THEN <<Message(EndEvent)>> ELSE <<>>,
                           r.st.sink.ended /\ ~sink.ended)
    /\ UNCHANGED <<eopts, authPending>>

\* handle.listen(name), below the listener limit
HandleListen(name) ==
    /\ handle.registered
    /\ ~handle.isClosed
    /\ handle' = [handle EXCEPT !.channels = @ \cup {name}, !.indexed = @ \cup {name}]
    /\ elast' = StreamCall("listen", name, NoMessage, "ok", <<>>, FALSE)
    /\ UNCHANGED <<steps, eopts, timer, closeHandler, authPending, sink>>

(* --------------------------- specifications --------------------------- *)

InitManager ==
    /\ clients = {}
    /\ listeners = EmptyIndex
    /\ count = 0
    /\ created = [c \in Conns |-> FALSE]
    /\ isClosed = [c \in Conns |-> FALSE]
    /\ channels = [c \in Conns |-> <<>>]
    /\ res = [c \in Conns |-> FreshRes]
    /\ hist = [c \in Conns |-> FreshHist]
    /\ last = NoCall

InitState ==
    /\ value = [p \in Procs |-> InitialValue]
    /\ subscribed = [p \in Procs |-> FALSE]
    /\ net = [p \in Procs |-> <<>>]
    /\ missed = FALSE
    /\ slast = NoStateCall

InitLife ==
    /\ states = [p \in Procs |-> NoStates]
    /\ nextInst = [p \in Procs |-> 0]
    /\ ready = [p \in Procs |-> FALSE]
    /\ life = [p \in Procs |-> <<>>]
    /\ lmissed = FALSE
    /\ llast = NoLifeCall

InitRelay ==
    /\ joined = [p \in Procs |-> {}]
    /\ bready = [p \in Procs |-> FALSE]
    /\ bnet = [p \in Procs |-> <<>>]
    /\ rlast = NoRelayCall

\* the Evstream constructor, for every opts
InitStream ==
    /\ eopts \in StreamOptions
    /\ timer = eopts.heartbeat
    /\ closeHandler = eopts.heartbeat
    /\ authPending = FALSE
    /\ sink = [ended |-> FALSE, out |-> <<>>, late |-> FALSE, closeEmitted |-> FALSE]
    /\ elast = NoStreamCall

\* the Evstream of the other specifications: constructed, not used
StreamAtRest ==
    /\ eopts = [given |-> FALSE, heartbeat |-> FALSE, auth |-> FALSE]
    /\ InitStream

\* the handle of the other specifications: no connection made
HandleAtRest ==
    /\ handle = NoHandle
    /\ steps = <<>>

\* the pub/sub of the other specifications: the handler of its one owner
SharedAtRest ==
    /\ handler = [p \in Procs |-> "none"]
    /\ regs = [p \in Procs |-> <<>>]
    /\ invoked = <<>>

\* the adapter of the other specifications: no subscribe call looked at
AdapterAtRest ==
    /\ adapter = NewAdapter
    /\ resolved = {}
    /\ anet = <<>>
    /\ alast = NoAdapterCall

vars == <<mvars, svars, lvars, rvars, evars, hvars, pvars, avars, ivars, xvars, dvars>>

\* one EvStreamManager, no bridge bound, and its connections
Init ==
    /\ InitManager
    /\ InitState
    /\ InitLife
    /\ InitRelay
    /\ StreamAtRest
    /\ HandleAtRest
    /\ SharedAtRest
    /\ AdapterAtRest
    /\ IdsAtRest
    /\ InstancesAtRest
    /\ DeliveriesAtRest
    /\ adapterBound = FALSE

Next ==
    \/ \E c \in Conns : CreateStream(c) /\ UNCHANGED <<svars, lvars, rvars, evars, hvars, pvars, avars, ivars, xvars, dvars>>
    \/ \E c \in Conns, cb \in Callbacks : Close(c, cb) /\ UNCHANGED <<svars, lvars, rvars, evars, hvars, pvars, avars, ivars, xvars, dvars>>
    \/ \E c \in Conns : SinkClose(c) /\ UNCHANGED <<svars, lvars, rvars, evars, hvars, pvars, avars, ivars, xvars, dvars>>
    \/ \E c \in Conns, name \in Channels : Listen(c, name) /\ UNCHANGED <<svars, lvars, rvars, evars, hvars, pvars, avars, ivars, xvars, dvars>>
    \/ \E name \in Channels : Send(name) /\ UNCHANGED <<svars, lvars, rvars, evars, hvars, pvars, avars, ivars, xvars, dvars>>

Spec == Init /\ [][Next]_vars

\* one EvState per process on one channel, with or without an adapter
InitS ==
    /\ InitManager
    /\ InitState
    /\ InitLife
    /\ InitRelay
    /\ StreamAtRest
    /\ HandleAtRest
    /\ SharedAtRest
    /\ AdapterAtRest
    /\ IdsAtRest
    /\ InstancesAtRest
    /\ DeliveriesAtRest
    /\ adapterBound \in BOOLEAN

NextS ==
    \/ \E p \in Procs, nv \in Values : SetValue(p, nv) /\ UNCHANGED <<mvars, lvars, rvars, evars, hvars, pvars, avars, ivars, xvars, dvars>>
    \/ \E p \in Procs : SubscribeDone(p) /\ UNCHANGED <<mvars, lvars, rvars, evars, hvars, pvars, avars, ivars, xvars, dvars>>
    \/ \E p \in Procs : Receive(p) /\ UNCHANGED <<mvars, lvars, rvars, evars, hvars, pvars, avars, ivars, xvars, dvars>>

SpecState == InitS /\ [][NextS]_vars

\* one EvStateManager per process, all on one lifecycle subject, no adapter
InitL ==
    /\ InitManager
    /\ InitState
    /\ InitLife
    /\ InitRelay
    /\ StreamAtRest
    /\ HandleAtRest
    /\ SharedAtRest
    /\ AdapterAtRest
    /\ IdsAtRest
    /\ InstancesAtRest
    /\ DeliveriesAtRest
    /\ adapterBound = FALSE

NextL ==
    \/ \E p \in Procs, k \in Keys, v \in Values : CreateState(p, k, v) /\ UNCHANGED <<mvars, svars, rvars, evars, hvars, pvars, avars, ivars, xvars, dvars>>
    \/ \E p \in Procs, k \in Keys : RemoveState(p, k) /\ UNCHANGED <<mvars, svars, rvars, evars, hvars, pvars, avars, ivars, xvars, dvars>>
    \/ \E p \in Procs, k \in Keys, nv \in Values : SetState(p, k, nv) /\ UNCHANGED <<mvars, svars, rvars, evars, hvars, pvars, avars, ivars, xvars, dvars>>
    \/ \E p \in Procs : PubSubReady(p) /\ UNCHANGED <<mvars, svars, rvars, evars, hvars, pvars, avars, ivars, xvars, dvars>>
    \/ \E p \in Procs : ReceiveLife(p) /\ UNCHANGED <<mvars, svars, rvars, evars, hvars, pvars, avars, ivars, xvars, dvars>>

SpecLife == InitL /\ [][NextL]_vars

\* processes that own both an adapter-bound EvState and an EvStateManager with a
\* lifecycle pub/sub.  The two transports share nothing (other Redis channels,
\* other objects), and a run uses one of them while the other is at rest.
InitLoop ==
    /\ InitManager
    /\ InitState
    /\ InitLife
    /\ InitRelay
    /\ StreamAtRest
    /\ HandleAtRest
    /\ SharedAtRest
    /\ AdapterAtRest
    /\ IdsAtRest
    /\ InstancesAtRest
    /\ DeliveriesAtRest
    /\ adapterBound = TRUE

NextLoop ==
    \/ \E p \in Procs, nv \in Values : InitLife /\ SetValue(p, nv) /\ UNCHANGED <<mvars, lvars, rvars, evars, hvars, pvars, avars, ivars, xvars, dvars>>
    \/ \E p \in Procs : InitLife /\ SubscribeDone(p) /\ UNCHANGED <<mvars, lvars, rvars, evars, hvars, pvars, avars, ivars, xvars, dvars>>
    \/ \E p \in Procs : InitLife /\ Receive(p) /\ UNCHANGED <<mvars, lvars, rvars, evars, hvars, pvars, avars, ivars, xvars, dvars>>
    \/ \E p \in Procs, k \in Keys, v \in Values :
            InitState /\ CreateState(p, k, v) /\ UNCHANGED <<mvars, svars, rvars, evars, hvars, pvars, avars, ivars, xvars, dvars>>
    \/ \E p \in Procs, k \in Keys : InitState /\ RemoveState(p, k) /\ UNCHANGED <<mvars, svars, rvars, evars, hvars, pvars, avars, ivars, xvars, dvars>>
    \/ \E p \in Procs, k \in Keys, nv \in Values :
            InitState /\ SetState(p, k, nv) /\ UNCHANGED <<mvars, svars, rvars, evars, hvars, pvars, avars, ivars, xvars, dvars>>
    \/ \E p \in Procs : InitState /\ PubSubReady(p) /\ UNCHANGED <<mvars, svars, rvars, evars, hvars, pvars, avars, ivars, xvars, dvars>>
    \/ \E p \in Procs : InitState /\ ReceiveLife(p) /\ UNCHANGED <<mvars, svars, rvars, evars, hvars, pvars, avars, ivars, xvars, dvars>>

SpecLoop == InitLoop /\ [][NextLoop]_vars

\* one EvStreamManager per process, each with a bridge on one subject
InitR ==
    /\ InitManager
    /\ InitState
    /\ InitLife
    /\ InitRelay
    /\ StreamAtRest
    /\ HandleAtRest
    /\ SharedAtRest
    /\ AdapterAtRest
    /\ IdsAtRest
    /\ InstancesAtRest
    /\ DeliveriesAtRest
    /\ adapterBound = FALSE

NextR ==
    \/ \E p \in Procs, name \in Channels : Join(p, name) /\ UNCHANGED <<mvars, svars, lvars, evars, hvars, pvars, avars, ivars, xvars, dvars>>
    \/ \E p \in Procs : BridgeReady(p) /\ UNCHANGED <<mvars, svars, lvars, evars, hvars, pvars, avars, ivars, xvars, dvars>>
    \/ \E p \in Procs, name \in Channels, msg \in Messages, rejects \in BOOLEAN :
            SendRelay(p, name, msg, rejects) /\ UNCHANGED <<mvars, svars, lvars, evars, hvars, pvars, avars, ivars, xvars, dvars>>
    \/ \E p \in Procs : BridgeReceive(p) /\ UNCHANGED <<mvars, svars, lvars, evars, hvars, pvars, avars, ivars, xvars, dvars>>

SpecRelay == InitR /\ [][NextR]_vars

\* one Evstream on its own
InitE ==
    /\ InitManager
    /\ InitState
    /\ InitLife
    /\ InitRelay
    /\ InitStream
    /\ HandleAtRest
    /\ SharedAtRest
    /\ AdapterAtRest
    /\ IdsAtRest
    /\ InstancesAtRest
    /\ DeliveriesAtRest
    /\ adapterBound = FALSE

NextE ==
    \/ Authenticate /\ UNCHANGED <<mvars, svars, lvars, rvars, hvars, pvars, avars, ivars, xvars, dvars>>
    \/ \E verdict \in Verdicts : AuthFinish(verdict) /\ UNCHANGED <<mvars, svars, lvars, rvars, hvars, pvars, avars, ivars, xvars, dvars>>
    \/ \E msg \in StreamMessages : StreamMessage(msg) /\ UNCHANGED <<mvars, svars, lvars, rvars, hvars, pvars, avars, ivars, xvars, dvars>>
    \/ StreamClose /\ UNCHANGED <<mvars, svars, lvars, rvars, hvars, pvars, avars, ivars, xvars, dvars>>
    \/ Heartbeat /\ UNCHANGED <<mvars, svars, lvars, rvars, hvars, pvars, avars, ivars, xvars, dvars>>
    \/ StreamSinkClose /\ UNCHANGED <<mvars, svars, lvars, rvars, hvars, pvars, avars, ivars, xvars, dvars>>

SpecStream == InitE /\ [][NextE]_vars

\* one connection made by createStream, used through its handle (authenticate,
\* message, close, listen), with its heartbeat and its sink
InitH ==
    /\ InitManager
    /\ InitState
    /\ InitLife
    /\ InitRelay
    /\ InitStream
    /\ handle = NewHandle
    /\ steps = <<>>
    /\ SharedAtRest
    /\ AdapterAtRest
    /\ IdsAtRest
    /\ InstancesAtRest
    /\ DeliveriesAtRest
    /\ adapterBound = FALSE

NextH ==
    \/ Authenticate /\ UNCHANGED <<mvars, svars, lvars, rvars, hvars, pvars, avars, ivars, xvars, dvars>>
    \/ \E verdict \in Verdicts : AuthFinish(verdict) /\ UNCHANGED <<mvars, svars, lvars, rvars, hvars, pvars, avars, ivars, xvars, dvars>>
    \/ \E msg \in StreamMessages : StreamMessage(msg) /\ UNCHANGED <<mvars, svars, lvars, rvars, hvars, pvars, avars, ivars, xvars, dvars>>
    \/ Heartbeat /\ UNCHANGED <<mvars, svars, lvars, rvars, hvars, pvars, avars, ivars, xvars, dvars>>
    \/ \E cb \in Callbacks : HandleClose(cb) /\ UNCHANGED <<mvars, svars, lvars, rvars, pvars, avars, ivars, xvars, dvars>>
    \/ HandleSinkClose /\ UNCHANGED <<mvars, svars, lvars, rvars, pvars, avars, ivars, xvars, dvars>>
    \/ \E name \in Channels : HandleListen(name) /\ UNCHANGED <<mvars, svars, lvars, rvars, pvars, avars, ivars, xvars, dvars>>

SpecHandle == InitH /\ [][NextH]_vars

\* the three transports with other publishers on their channels, and an adapter
\* transport that delivers a message more than once.  The transports share
\* nothing, and a run uses one of them while the other two are at rest.
InitF ==
    /\ InitManager
    /\ InitState
    /\ InitLife
    /\ InitRelay
    /\ StreamAtRest
    /\ HandleAtRest
    /\ SharedAtRest
    /\ AdapterAtRest
    /\ IdsAtRest
    /\ InstancesAtRest
    /\ DeliveriesAtRest
    /\ adapterBound = TRUE

NextF ==
    \/ \E p \in Procs : InitLife /\ InitRelay /\ SubscribeDone(p) /\ UNCHANGED <<mvars, lvars, rvars, evars, hvars, pvars, avars, ivars, xvars, dvars>>
    \/ \E p \in Procs, nv \in Values :
            InitLife /\ InitRelay /\ HasRoom(net, MaxForeign) /\ SetValue(p, nv)
                /\ UNCHANGED <<mvars, lvars, rvars, evars, hvars, pvars, avars, ivars, xvars, dvars>>
    \/ \E m \in ForeignUpdates :
            InitLife /\ InitRelay /\ InjectUpdate(m) /\ UNCHANGED <<mvars, lvars, rvars, evars, hvars, pvars, avars, ivars, xvars, dvars>>
    \/ \E p \in Procs : InitLife /\ InitRelay /\ Receive(p) /\ UNCHANGED <<mvars, lvars, rvars, evars, hvars, pvars, avars, ivars, xvars, dvars>>
    \/ \E p \in Procs : InitLife /\ InitRelay /\ DeliverKeep(p) /\ UNCHANGED <<mvars, lvars, rvars, evars, hvars, pvars, avars, ivars, xvars, dvars>>
    \/ \E p \in Procs : InitState /\ InitRelay /\ PubSubReady(p) /\ UNCHANGED <<mvars, svars, rvars, evars, hvars, pvars, avars, ivars, xvars, dvars>>
    \/ \E p \in Procs, k \in Keys, v \in Values :
            InitState /\ InitRelay /\ HasRoom(life, MaxForeign) /\ CreateState(p, k, v)
                /\ UNCHANGED <<mvars, svars, rvars, evars, hvars, pvars, avars, ivars, xvars, dvars>>
    \/ \E m \in ForeignLifeEvents :
            InitState /\ InitRelay /\ InjectLife(m) /\ UNCHANGED <<mvars, svars, rvars, evars, hvars, pvars, avars, ivars, xvars, dvars>>
    \/ \E p \in Procs : InitState /\ InitRelay /\ ReceiveLife(p) /\ UNCHANGED <<mvars, svars, rvars, evars, hvars, pvars, avars, ivars, xvars, dvars>>
    \/ \E p \in Procs : InitState /\ InitLife /\ BridgeReady(p) /\ UNCHANGED <<mvars, svars, lvars, evars, hvars, pvars, avars, ivars, xvars, dvars>>
    \/ \E p \in Procs, name \in Channels :
            InitState /\ InitLife /\ Join(p, name) /\ UNCHANGED <<mvars, svars, lvars, evars, hvars, pvars, avars, ivars, xvars, dvars>>
    \/ \E m \in ForeignBroadcasts :
            InitState /\ InitLife /\ InjectBroadcast(m) /\ UNCHANGED <<mvars, svars, lvars, evars, hvars, pvars, avars, ivars, xvars, dvars>>
    \/ \E p \in Procs : InitState /\ InitLife /\ BridgeReceive(p) /\ UNCHANGED <<mvars, svars, lvars, evars, hvars, pvars, avars, ivars, xvars, dvars>>

SpecForeign == InitF /\ [][NextF]_vars

\* one EvRedisPubSub per process, constructed with or without options.onMessage
\* and then handed to an EvStreamManager and an EvStateManager
InitP ==
    /\ InitManager
    /\ InitState
    /\ InitLife
    /\ InitRelay
    /\ StreamAtRest
    /\ HandleAtRest
    /\ handler \in [Procs -> {"none", "user"}]
    /\ regs = [p \in Procs |-> Invoke(handler[p])]
    /\ invoked = <<>>
    /\ AdapterAtRest
    /\ IdsAtRest
    /\ InstancesAtRest
    /\ DeliveriesAtRest
    /\ adapterBound = FALSE

NextP ==
    \/ \E p \in Procs : BridgeReady(p) /\ UNCHANGED <<mvars, svars, lvars, evars, hvars, pvars, avars, ivars, xvars, dvars>>
    \/ \E p \in Procs : Join(p, "news") /\ UNCHANGED <<mvars, svars, lvars, evars, hvars, pvars, avars, ivars, xvars, dvars>>
    \/ \E p \in Procs, h \in Handlers :
            RegisterHandler(p, h) /\ UNCHANGED <<mvars, svars, lvars, evars, hvars, avars, ivars, xvars, dvars>>
    \/ \E p \in Procs, msg \in SharedMessages :
            SharedSend(p, msg) /\ UNCHANGED <<mvars, svars, lvars, evars, hvars, avars, ivars, xvars, dvars>>
    \/ \E p \in Procs : SharedReceive(p) /\ UNCHANGED <<mvars, svars, lvars, evars, hvars, avars, ivars, xvars, dvars>>

SpecShared == InitP /\ [][NextP]_vars

\* one EvRedisAdapter and one channel: subscribe calls that may overlap, the
\* transport, and the messages of the channel
InitA ==
    /\ InitManager
    /\ InitState
    /\ InitLife
    /\ InitRelay
    /\ StreamAtRest
    /\ HandleAtRest
    /\ SharedAtRest
    /\ AdapterAtRest
    /\ IdsAtRest
    /\ InstancesAtRest
    /\ DeliveriesAtRest
    /\ adapterBound = TRUE

NextA ==
    \/ \E h \in AHandlers : AdapterSubscribe(h) /\ UNCHANGED <<mvars, svars, lvars, rvars, evars, hvars, pvars, ivars, xvars, dvars>>
    \/ TransportActive /\ UNCHANGED <<mvars, svars, lvars, rvars, evars, hvars, pvars, ivars, xvars, dvars>>
    \/ \E h \in AHandlers, ok \in BOOLEAN :
            SubscribeResume(h, ok) /\ UNCHANGED <<mvars, svars, lvars, rvars, evars, hvars, pvars, ivars, xvars, dvars>>
    \/ \E p \in Procs, v \in Values :
            AdapterPublish(p, v) /\ UNCHANGED <<mvars, svars, lvars, rvars, evars, hvars, pvars, ivars, xvars, dvars>>
    \/ AdapterDeliver /\ UNCHANGED <<mvars, svars, lvars, rvars, evars, hvars, pvars, ivars, xvars, dvars>>

SpecAdapter == InitA /\ [][NextA]_vars

\* one EvRedisAdapter and one channel: subscribe and unsubscribe calls that may
\* overlap, the transport, and the messages of the channel
NextU ==
    \/ \E h \in AHandlers : AdapterSubscribe(h) /\ UNCHANGED <<mvars, svars, lvars, rvars, evars, hvars, pvars, ivars, xvars, dvars>>
    \/ TransportActive /\ UNCHANGED <<mvars, svars, lvars, rvars, evars, hvars, pvars, ivars, xvars, dvars>>
    \/ \E h \in AHandlers, ok \in BOOLEAN :
            SubscribeResume(h, ok) /\ UNCHANGED <<mvars, svars, lvars, rvars, evars, hvars, pvars, ivars, xvars, dvars>>
    \/ AdapterUnsubscribe /\ UNCHANGED <<mvars, svars, lvars, rvars, evars, hvars, pvars, ivars, xvars, dvars>>
    \/ UnsubscribeResume /\ UNCHANGED <<mvars, svars, lvars, rvars, evars, hvars, pvars, ivars, xvars, dvars>>
    \/ \E p \in Procs, v \in Values :
            AdapterPublish(p, v) /\ UNCHANGED <<mvars, svars, lvars, rvars, evars, hvars, pvars, ivars, xvars, dvars>>
    \/ AdapterDeliver /\ UNCHANGED <<mvars, svars, lvars, rvars, evars, hvars, pvars, ivars, xvars, dvars>>

SpecUnsubscribe == InitA /\ [][NextU]_vars

\* one EvStateManager per process on one lifecycle subject, and callers that keep
\* the EvState instances createState returned to them
InitD ==
    /\ InitManager
    /\ InitState
    /\ InitLife
    /\ InitRelay
    /\ StreamAtRest
    /\ HandleAtRest
    /\ SharedAtRest
    /\ AdapterAtRest
    /\ IdsAtRest
    /\ InstancesAtRest
    /\ DeliveriesAtRest
    /\ adapterBound = FALSE

NextD ==
    \/ \E p \in Procs, k \in Keys, v \in Values :
            HasRoom(life, MaxForeign) /\ CreateState(p, k, v)
                /\ UNCHANGED <<mvars, svars, rvars, evars, hvars, pvars, avars, ivars, xvars, dvars>>
    \/ \E p \in Procs, k \in Keys :
            HasRoom(life, MaxForeign) /\ RemoveState(p, k)
                /\ UNCHANGED <<mvars, svars, rvars, evars, hvars, pvars, avars, ivars, xvars, dvars>>
    \/ \E p \in Procs : PubSubReady(p) /\ UNCHANGED <<mvars, svars, rvars, evars, hvars, pvars, avars, ivars, xvars, dvars>>
    \/ \E p \in Procs : ReceiveLife(p) /\ UNCHANGED <<mvars, svars, rvars, evars, hvars, pvars, avars, ivars, xvars, dvars>>
    \/ \E p \in Procs, n \in 1..MaxInst, old \in Values, nv \in Values :
            SetRemoved(p, n, old, nv) /\ UNCHANGED <<mvars, svars, rvars, evars, hvars, pvars, avars, ivars, xvars, dvars>>

SpecRemoved == InitD /\ [][NextD]_vars

\* one EvStreamManager and the ids of its connections
InitI ==
    /\ InitManager
    /\ InitState
    /\ InitLife
    /\ InitRelay
    /\ StreamAtRest
    /\ HandleAtRest
    /\ SharedAtRest
    /\ AdapterAtRest
    /\ IdsAtRest
    /\ InstancesAtRest
    /\ DeliveriesAtRest
    /\ adapterBound = FALSE

NextI ==
    \/ \E c \in Conns : CreateStreamUid(c) /\ UNCHANGED <<svars, lvars, rvars, evars, hvars, pvars, avars, xvars, dvars>>
    \/ \E c \in Conns, cb \in Callbacks : Close(c, cb) /\ UNCHANGED <<svars, lvars, rvars, evars, hvars, pvars, avars, ivars, xvars, dvars>>
    \/ \E c \in Conns : SinkClose(c) /\ UNCHANGED <<svars, lvars, rvars, evars, hvars, pvars, avars, ivars, xvars, dvars>>
    \/ \E c \in Conns, name \in Channels : Listen(c, name) /\ UNCHANGED <<svars, lvars, rvars, evars, hvars, pvars, avars, ivars, xvars, dvars>>

SpecIds == InitI /\ [][NextI]_vars

\* one EvStateManager with an adapter per process: the registry, every EvState
\* constructed, and the updates of the state's channel
InitX ==
    /\ InitManager
    /\ InitState
    /\ InitLife
    /\ InitRelay
    /\ StreamAtRest
    /\ HandleAtRest
    /\ SharedAtRest
    /\ AdapterAtRest
    /\ IdsAtRest
    /\ InstancesAtRest
    /\ DeliveriesAtRest
    /\ adapterBound = TRUE

NextX ==
    \/ \E p \in Procs, k \in Keys :
            HasRoom(life, MaxForeign) /\ CreateStateHeld(p, k, InitialValue)
                /\ UNCHANGED <<mvars, svars, rvars, evars, hvars, pvars, avars, ivars, dvars>>
    \/ \E p \in Procs, k \in Keys :
            HasRoom(life, MaxForeign) /\ RemoveState(p, k)
                /\ UNCHANGED <<mvars, svars, rvars, evars, hvars, pvars, avars, ivars, xvars, dvars>>
    \/ \E p \in Procs : PubSubReady(p) /\ UNCHANGED <<mvars, svars, rvars, evars, hvars, pvars, avars, ivars, xvars, dvars>>
    \/ \E p \in Procs : ReceiveLifeHeld(p) /\ UNCHANGED <<mvars, svars, rvars, evars, hvars, pvars, avars, ivars, dvars>>
    \/ \E p \in Procs : SubscribeHeld(p) /\ UNCHANGED <<mvars, lvars, rvars, evars, hvars, pvars, avars, ivars, xvars, dvars>>
    \/ \E p \in Procs, k \in Keys, nv \in Values :
            HasRoom(net, MaxForeign) /\ SetHeld(p, k, nv) /\ UNCHANGED <<mvars, lvars, rvars, evars, hvars, pvars, avars, ivars, dvars>>
    \/ \E p \in Procs : ReceiveHeld(p) /\ UNCHANGED <<mvars, lvars, rvars, evars, hvars, pvars, avars, ivars, dvars>>

SpecInstances == InitX /\ [][NextX]_vars

\* one EvState per process, constructed with an adapter, on a manager with a
\* bridge, and one client per process on the state's channel
InitB ==
    /\ InitManager
    /\ InitState
    /\ InitLife
    /\ InitRelay
    /\ StreamAtRest
    /\ HandleAtRest
    /\ SharedAtRest
    /\ AdapterAtRest
    /\ IdsAtRest
    /\ InstancesAtRest
    /\ DeliveriesAtRest
    /\ adapterBound = TRUE

SetsMade == sets[[n |-> 0]] + sets[[n |-> 1]]

NextB ==
    \/ \E p \in Procs : Join(p, StateChannel) /\ UNCHANGED <<mvars, svars, lvars, evars, hvars, pvars, avars, ivars, xvars, dvars>>
    \/ \E p \in Procs : BridgeReady(p) /\ UNCHANGED <<mvars, svars, lvars, evars, hvars, pvars, avars, ivars, xvars, dvars>>
    \/ \E p \in Procs : SubscribeDone(p) /\ UNCHANGED <<mvars, lvars, rvars, evars, hvars, pvars, avars, ivars, xvars, dvars>>
    \/ \E p \in Procs, nv \in Values :
            /\ SetsMade < MaxSets
            /\ HasRoom(net, MaxForeign) /\ HasRoom(bnet, MaxRelayInFlight)
            /\ SetBridged(p, nv)
            /\ UNCHANGED <<mvars, lvars, evars, hvars, pvars, avars, ivars, xvars>>
    \/ \E p \in Procs :
            /\ HasRoom(bnet, MaxRelayInFlight)
            /\ ReceiveBridged(p)
            /\ UNCHANGED <<mvars, lvars, evars, hvars, pvars, avars, ivars, xvars>>
    \/ \E p \in Procs : BridgeReceiveWritten(p) /\ UNCHANGED <<mvars, svars, lvars, evars, hvars, pvars, avars, ivars, xvars>>

SpecBridged == InitB /\ [][NextB]_vars

(* ------------------------ claims: the manager ------------------------- *)

\* The teardown of slot c's connection has run to its end: a close() has returned.
CloseReturned(c) == created[c] /\ isClosed[c] /\ hist[c].decr > 0

\* C1: createStream succeeds exactly when fewer than maxConnection connections
\* are live, and otherwise throws EvMaxConnectionsError carrying maxConnection and
\* changes nothing; so the live count never exceeds maxConnection.
C1_CreateStreamCapacity ==
    /\ [](count <= MaxConnection /\ Cardinality(clients) <= MaxConnection)
    /\ [][last'.op = "createStream" =>
            /\ (last'.result = "ok") <=> (count < MaxConnection)
            /\ (last'.result = "EvMaxConnectionsError") <=> (count >= MaxConnection)
            /\ last'.result = "ok" =>
                    /\ count' = count + 1
                    /\ Cardinality(clients') = Cardinality(clients) + 1
            /\ last'.result = "EvMaxConnectionsError" =>
                    /\ last'.val = MaxConnection
                    /\ UNCHANGED <<clients, listeners, count, created, isClosed, channels, res, hist>>
       ]_vars

\* a createStream was rejected at full capacity
C1_Witness ==
    /\ last.op = "createStream"
    /\ last.result = "EvMaxConnectionsError"
    /\ count = MaxConnection
    /\ Cardinality(clients) = MaxConnection

\* C2: listen() on a channel succeeds while the channel holds fewer than
\* maxListeners ids and throws EvMaxListenerError once it holds maxListeners; no
\* channel's listener set ever holds more than maxListeners ids.
C2_MaxListeners ==
    /\ [](\A n \in DOMAIN listeners : Cardinality(listeners[n]) <= MaxListeners)
    /\ [][(last'.op = "listen" /\ last'.result # "noop") =>
            LET n == last'.ch
                size == IF n \in DOMAIN listeners THEN Cardinality(listeners[n]) ELSE 0
            IN  /\ size < MaxListeners =>
                        /\ last'.result = "ok"
                        /\ last'.c \in listeners'[n]
                /\ size >= MaxListeners =>
                        /\ last'.result = "EvMaxListenerError"
                        /\ listeners'[n] = listeners[n]
       ]_vars

\* a connection outside a full channel was refused by listen()
C2_Witness ==
    /\ last.op = "listen"
    /\ last.result = "EvMaxListenerError"
    /\ last.ch \in DOMAIN listeners
    /\ Cardinality(listeners[last.ch]) = MaxListeners
    /\ last.c \notin listeners[last.ch]

\* C6 (as claimed): once close() has been called on a connection, its teardown
\* has run exactly once: the count decremented once, one 'end' event written,
\* onClose invoked at most once.
C6_DestroyedExactlyOnce ==
    \A c \in Conns :
        (created[c] /\ isClosed[c]) =>
            /\ hist[c].decr = 1
            /\ res[c].endEvents = 1
            /\ hist[c].onClose <= 1

C8_SendUnknownChannel ==
    (/\ last.op = "send"
     /\ (last.ch \notin DOMAIN listeners \/ listeners[last.ch] = {}))
        => (last.result = "ok" /\ last.wrote = {})

\* a send on a channel without listeners, after a connection has left
C8_Witness ==
    /\ last.op = "send"
    /\ last.ch \notin DOMAIN listeners
    /\ \E c \in Conns : CloseReturned(c)
    /\ listeners # EmptyIndex

\* C9: no channel entry of the index maps to an empty listener set.
C9_NoEmptyChannel ==
    \A n \in DOMAIN listeners : listeners[n] # {}

\* a close that unlistened its channels has emptied the index
C9_Witness ==
    /\ last.op = "close"
    /\ last.result = "ok"
    /\ last.val > 0
    /\ listeners = EmptyIndex

(* ------------------------ claims: the EvState ------------------------- *)

\* C3: set is gated by deep equality.  A transform result equal to the current
\* value makes no manager broadcast and no adapter publish and leaves the value;
\* a different result replaces the value and makes exactly one manager broadcast
\* and, with an adapter bound, exactly one adapter publish.
C3_SetGatedByEquality ==
    [][slast'.op = "set" =>
        LET p == slast'.p
            nv == slast'.arg
        IN  /\ nv = value[p] =>
                    /\ slast'.sends = 0
                    /\ slast'.pubs = 0
                    /\ value' = value
                    /\ net' = net
            /\ nv # value[p] =>
                    /\ value' = [value EXCEPT ![p] = nv]
                    /\ slast'.sends = 1
                    /\ slast'.pubs = IF adapterBound THEN 1 ELSE 0
                    /\ \A q \in Procs :
                          Len(net'[q]) =
                              Len(net[q]) + IF adapterBound /\ subscribed[q] THEN 1 ELSE 0
    ]_vars

\* a set to a value equal to the current one, which an earlier set had put there,
\* with an adapter bound
C3_Witness ==
    /\ adapterBound
    /\ slast.op = "set"
    /\ slast.sends = 0
    /\ slast.pubs = 0
    /\ slast.arg = value[slast.p]
    /\ value[slast.p] # InitialValue

\* every publish so far has been handed to every process
Delivered == \A p \in Procs : net[p] = <<>>

\* C4 (as claimed): once every published update has been delivered, all processes
\* hold the same value.  Stated for the runs in which every process had subscribed
\* before the first set, so that no update was published to an absent subscriber.
C4_ValuesConverge ==
    (/\ adapterBound
     /\ \A p \in Procs : subscribed[p]
     /\ ~missed
     /\ Delivered)
        => \A p, q \in Procs : value[p] = value[q]

(* --------------------- claims: the EvStateManager --------------------- *)

\* every lifecycle event published so far has been handed to every process
LifeDelivered == \A p \in Procs : life[p] = <<>>

\* C5 (as claimed): once every lifecycle event has been delivered, every process
\* holds the same set of state keys.  Stated for the runs in which every pub/sub
\* was listening before the first createState or removeState.
C5_KeysConverge ==
    (/\ \A p \in Procs : ready[p]
     /\ ~lmissed
     /\ LifeDelivered)
        => \A p, q \in Procs : DOMAIN states[p] = DOMAIN states[q]

\* C10: createState with a key already present returns the registered instance,
\* leaves its value, and publishes nothing; createState with a new key registers
\* a new instance holding initialValue and publishes exactly one 'create' event.
C10_CreateStateIdempotent ==
    [][llast'.op = "createState" =>
        LET p == llast'.p
            k == llast'.key
            v == llast'.arg
        IN  /\ k \in DOMAIN states[p] =>
                    /\ llast'.inst = states[p][k].inst
                    /\ states' = states
                    /\ nextInst' = nextInst
                    /\ llast'.pubs = 0
                    /\ life' = life
            /\ k \notin DOMAIN states[p] =>
                    /\ k \in DOMAIN states'[p]
                    /\ states'[p][k] = [inst |-> llast'.inst, value |-> v]
                    /\ llast'.inst = nextInst[p] + 1
                    /\ llast'.pubs = 1
                    /\ \A q \in Procs :
                          life'[q] = IF ready[q]
                                     THEN Append(life[q],
                                             [uid |-> p,
                                              msg |-> [type |-> "create", channel |-> k,
                                                       initialValue |-> v]])
                                     ELSE life[q]
    ]_vars

\* a second createState of a key, with another initialValue than the value the
\* registered state holds: the instance returned is the registered one
C10_Witness ==
    /\ llast.op = "createState"
    /\ llast.pubs = 0
    /\ llast.key \in DOMAIN states[llast.p]
    /\ states[llast.p][llast.key].inst = llast.inst
    /\ states[llast.p][llast.key].value # llast.arg
    /\ \A q \in Procs : ready[q]

\* C11: in the remote lifecycle handler a 'remove' event for a key that is not
\* present changes nothing, and a 'create' event for a key already present is
\* ignored: the registered instance is kept, its value is not overwritten and no
\* instance is constructed.
C11_RemoteLifecycleIgnored ==
    [][(llast'.op \in {"remoteCreate", "remoteRemove"} /\ life[llast'.p] # <<>>) =>
        LET p == llast'.p
            msg == Head(life[p]).msg
        IN  /\ (msg.type = "remove" /\ msg.channel \notin DOMAIN states[p]) =>
                    (states' = states /\ nextInst' = nextInst)
            /\ (msg.type = "create" /\ msg.channel \in DOMAIN states[p]) =>
                    /\ states' = states
                    /\ nextInst' = nextInst
                    /\ llast'.inst = 0
    ]_vars

\* a remote 'create' arrived for a key the process holds with another value than
\* the event's initialValue, and constructed nothing
C11_Witness ==
    /\ llast.op = "remoteCreate"
    /\ llast.inst = 0
    /\ llast.key \in DOMAIN states[llast.p]
    /\ states[llast.p][llast.key].value # llast.arg

(* ------------------ claims: self-loopback suppression ----------------- *)

\* C12: a message an adapter or a pub/sub receives from the transport whose
\* embedded instance id is its own is passed to no local handler (no handler
\* effect: the state value, the registry stay), and a message with another
\* instance id is passed to the handler.
C12_SelfLoopbackSuppressed ==
    /\ [][(slast'.op \in {"dropped", "remote"} /\ net[slast'.p] # <<>>) =>
            LET p == slast'.p
                m == Head(net[p])
            IN  /\ m.id = p => (slast'.op = "dropped" /\ value' = value /\ slast'.sends = 0)
                /\ m.id # p =>
                        /\ slast'.op = "remote"
                        /\ value'[p] = m.message[WrapKey]
       ]_vars
    /\ [][(llast'.op \in {"dropped", "remoteCreate", "remoteRemove"} /\ life[llast'.p] # <<>>) =>
            LET p == llast'.p
                m == Head(life[p])
            IN  /\ m.uid = p =>
                        (llast'.op = "dropped" /\ states' = states /\ nextInst' = nextInst)
                /\ m.uid # p =>
                        /\ llast'.op \in {"remoteCreate", "remoteRemove"}
                        /\ (m.msg.type = "create") => m.msg.channel \in DOMAIN states'[p]
                        /\ (m.msg.type = "remove") => m.msg.channel \notin DOMAIN states'[p]
       ]_vars

\* a pub/sub has dropped its own lifecycle event while it holds the state the
\* event announced
C12_Witness ==
    /\ llast.op = "dropped"
    /\ \E k \in Keys : k \in DOMAIN states[llast.p]
    /\ \A q \in Procs : ready[q]

(* --------------------- claims: remote state updates ------------------- *)

\* C13: an adapter-bound EvState that receives a remote update {wrapKey: v}
\* replaces its value and makes one manager broadcast when v differs from the
\* current value, and does nothing when v equals it; in neither case does it
\* publish to the adapter: the transport holds no message more than before.
C13_RemoteUpdateNoEcho ==
    [][(slast'.op = "remote" /\ net[slast'.p] # <<>>) =>
        LET p == slast'.p
            v == Head(net[p]).message[WrapKey]
        IN  /\ v # value[p] => (value' = [value EXCEPT ![p] = v] /\ slast'.sends = 1)
            /\ v = value[p] => (value' = value /\ slast'.sends = 0)
            /\ slast'.pubs = 0
            /\ net' = [net EXCEPT ![p] = Tail(@)]
    ]_vars

\* a remote update arrived that carries the value the process already holds,
\* which its own set had put there
C13_Witness ==
    /\ slast.op = "remote"
    /\ slast.sends = 0
    /\ slast.arg = value[slast.p]
    /\ value[slast.p] # InitialValue

(* ----------------- claims: the manager and its bridge ----------------- *)

\* C14: with a bridge bound, every send(name, msg) fans out locally and hands
\* the bridge exactly one message, which carries the channel name and the
\* original msg, not the message wrapped for the local listeners: every process
\* whose bridge listens gets that one message more.
C14_SendRelaysOriginal ==
    [][rlast'.op = "send" =>
        LET p == rlast'.p
            name == rlast'.name
            msg == rlast'.msg
        IN  /\ (rlast'.wrote # {}) <=> (name \in joined[p])
            /\ ~rlast'.unhandled =>
                    /\ rlast'.pubs = 1
                    /\ \A q \in Procs :
                          bnet'[q] = IF bready[q]
                                     THEN Append(bnet[q],
                                             [uid |-> p,
                                              msg |-> [name |-> name, message |-> msg]])
                                     ELSE bnet[q]
    ]_vars

\* a send that wrote to a local listener and was published to every process
C14_Witness ==
    /\ rlast.op = "send"
    /\ rlast.pubs = 1
    /\ rlast.wrote # {}
    /\ \A q \in Procs : bready[q] /\ bnet[q] # <<>>

\* C15 (as claimed): a publish of the bridge that fails during send() is not
\* propagated: the local fan-out has happened, the call has returned, and no
\* error escapes, an unhandled promise rejection included.
C15_PublishFailureContained ==
    (rlast.op = "send" /\ rlast.pubs = 0) =>
        /\ (rlast.wrote # {}) <=> (rlast.name \in joined[rlast.p])
        /\ ~rlast.unhandled

(* ------------------------ claims: the Evstream ------------------------ *)

\* C16 (as claimed): what authenticate() does on an open sink is determined by
\* the verifier's answer: false writes exactly one 'error' event, ends the sink
\* and returns false; true returns true and writes nothing; a message is written
\* as it is and counts as authenticated; an absent answer (undefined, null), like
\* no authentication being configured, passes through: the call does not reject,
\* nothing is written and the sink is not ended.
C16_AuthenticateOutcome ==
    [][(elast'.op = "authenticate" /\ ~sink.ended) =>
        /\ elast'.arg = "false" =>
                /\ elast'.result = "false"
                /\ elast'.wrote = <<Message(AuthFailed)>>
                /\ sink'.ended
        /\ elast'.arg = "true" =>
                (elast'.result = "true" /\ elast'.wrote = <<>> /\ sink' = sink)
        /\ elast'.arg = "message" =>
                /\ elast'.result = "true"
                /\ elast'.wrote = <<Message(AuthReply)>>
                /\ ~sink'.ended
        /\ elast'.arg \in {"undefined", "null", ""} =>
                /\ elast'.result \notin {"false", "TypeError"}
                /\ elast'.wrote = <<>>
                /\ sink' = sink
    ]_vars

\* the text the encoder is claimed to emit for msg: the id line when an id is
\* given, the event line, the data line when the data serializes to a non-empty
\* string, and a blank line
ClaimedFrame(msg) ==
    (IF HasId(msg) THEN "id:" \o msg.id \o "\n" ELSE "")
        \o "event:" \o (IF msg.event # "" THEN msg.event ELSE "message") \o "\n"
        \o (IF SafeJsonParse(msg.data) # ""
            THEN "data:" \o SafeJsonParse(msg.data) \o "\n"
            ELSE "")
        \o "\n"

\* C19 (as claimed): every frame written to an open sink is the id line if an id
\* is given, the event line, the data line only if the data serializes to a
\* non-empty string, and a blank line; the heartbeat and the 'end' event, whose
\* data is '', carry no data line.
C19_EncoderOmitsEmptyData ==
    (elast.op \in {"message", "close", "heartbeat"} /\ elast.wrote # <<>>) =>
        elast.wrote = <<ClaimedFrame(elast.msg)>>

(* --------------------- claims: the channel tag ------------------------ *)

\* C17 (as claimed): every message a listener receives from send(c, msg) with
\* object data has msg's event and a data object whose ch field is the channel
\* name c and whose other fields are those of the original data.
C17_ChannelTagged ==
    (rlast.op = "send" /\ rlast.msg.data.t = "object") =>
        \A w \in rlast.wrote :
            /\ w.event = rlast.msg.event
            /\ w.data.t = "object"
            /\ w.data.o["ch"] = rlast.name
            /\ \A f \in DOMAIN rlast.msg.data.o \ {"ch"} :
                    f \in DOMAIN w.data.o /\ w.data.o[f] = rlast.msg.data.o[f]

(* ------------------ claims: lifecycle events reach ------------------- *)

\* C18 (as claimed): a createState(key, v) of a new key on process A reaches
\* every other process that has no state for key: the transport takes the
\* 'create' event for each of them, and the process to which it is delivered
\* while it has no state for key holds, from then, a state for key with value v.
C18_CreateReachesSiblings ==
    /\ [][(llast'.op = "createState" /\ llast'.pubs = 1) =>
            \A q \in Procs \ {llast'.p} :
                llast'.key \notin DOMAIN states[q] =>
                    life'[q] = Append(life[q],
                                  [uid |-> llast'.p,
                                   msg |-> [type |-> "create", channel |-> llast'.key,
                                            initialValue |-> llast'.arg]])
       ]_vars
    /\ [][(llast'.op = "remoteCreate" /\ life[llast'.p] # <<>>) =>
            LET q == llast'.p
                msg == Head(life[q]).msg
            IN  msg.channel \notin DOMAIN states[q] =>
                    /\ msg.channel \in DOMAIN states'[q]
                    /\ states'[q][msg.channel].value = msg.initialValue
       ]_vars

(* ------------------ claims: the index and the registry ---------------- *)

\* C20: every connection id in a channel's listener set is the id of a
\* connection in the client registry, across createStream, listen (also on a
\* closed connection, which changes nothing), close, the sink's 'close' and send.
C20_ListenersAreRegistered ==
    /\ [](\A n \in DOMAIN listeners : \A c \in listeners[n] : c \in clients /\ created[c])
    /\ [][(last'.op = "listen" /\ last'.result = "noop") =>
            UNCHANGED <<clients, listeners, count, created, isClosed, channels, res, hist>>
       ]_vars

\* a listen on a closed connection was ignored while another connection listens
C20_Witness ==
    /\ last.op = "listen"
    /\ last.result = "noop"
    /\ \E c \in Conns : CloseReturned(c)
    /\ listeners # EmptyIndex

(* ------------------ claims: the managed connection -------------------- *)

\* the statement x is among the statements s, and where it comes first
Has(s, x) == \E i \in 1..Len(s) : s[i] = x
Pos(s, x) == CHOOSE i \in 1..Len(s) : s[i] = x /\ \A j \in 1..(i - 1) : s[j] # x

\* C21: a close of a managed connection that runs to its end stops the heartbeat
\* timer (a), then removes a close listener from the sink (b), then writes the
\* 'end' event (c), then removes the connection from its channels (d), then
\* removes it from the registry, count and entry (e): no close listener is
\* removed before (a), and the count is not decremented before (d).
C21_CloseOrder ==
    Has(steps, "clients.delete") =>
        LET a == Pos(steps, "clearHeartbeat")
            b1 == Pos(steps, "removeAllListeners")
            b2 == Pos(steps, "removeCloseListener")
            c == Pos(steps, "end")
            d == Pos(steps, "unlisten")
            e1 == Pos(steps, "count")
            e2 == Pos(steps, "clients.delete")
        IN  /\ a < b1 /\ a < b2
            /\ b1 < c /\ b2 < c
            /\ c < d
            /\ d < e1 /\ d < e2

\* the connection has been closed: its sink was ended (Evstream.close, a rejected
\* authentication), the sink emitted 'close', or the handle's close ran to its end
ConnectionClosed ==
    \/ sink.ended
    \/ sink.closeEmitted
    \/ handle.isClosed /\ ~handle.registered

\* C22: once a connection that has a heartbeat is closed (through the handle's
\* close, by the sink's 'close' event or by a rejected authentication) its
\* heartbeat timer is cleared, and no heartbeat is written from then on.
C22_HeartbeatCancelled ==
    /\ [](ConnectionClosed => ~timer)
    /\ [][ConnectionClosed => ConnectionClosed' /\ elast'.op # "heartbeat"]_vars

\* a connection with a heartbeat that wrote a heartbeat and was then closed
\* through its handle
C22_Witness ==
    /\ eopts.heartbeat
    /\ \E i \in 1..Len(sink.out) : sink.out[i] = Message(HeartbeatEvent)
    /\ handle.isClosed /\ ~handle.registered
    /\ sink.ended
    /\ ~timer

(* ------------------- claims: what a delivery triggers ------------------ *)

\* C23: a broadcast that a manager's bridge receives is written to the local
\* listeners of its channel only, once each, and is not published again: the
\* delivery takes one message off the transport and adds none, so a send stays
\* one bridge message and no relay loop starts.
C23_BridgeDeliveryStaysLocal ==
    [][(rlast'.op \in {"relayed", "dropped"} /\ bnet[rlast'.p] # <<>>) =>
        LET p == rlast'.p
            m == Head(bnet[p])
        IN  /\ bnet' = [bnet EXCEPT ![p] = Tail(@)]
            /\ rlast'.pubs = 0
            /\ rlast'.wrote = IF m.uid # p /\ m.msg.name \in joined[p]
                              THEN {WrapLocal(m.msg.name, m.msg.message)}
                              ELSE {}
    ]_vars

\* a broadcast of another process was written to the local listener, and the
\* transport holds nothing any more
C23_Witness ==
    /\ rlast.op = "relayed"
    /\ rlast.wrote # {}
    /\ \A q \in Procs : bready[q] /\ bnet[q] = <<>>

\* C24: handling a remote lifecycle event publishes nothing: the delivery takes
\* one message off the transport and adds none, whatever the handler does to
\* the registry.  A lifecycle message is published by a createState of a new key
\* and by a removeState, one each, and by nothing else, so the messages
\* published are as many as those calls.
C24_RemoteLifecycleNotRepublished ==
    [][LET p == llast'.p
           local == \/ llast'.op = "removeState"
                    \/ llast'.op = "createState" /\ ~HasState(states[p], llast'.key)
       IN  /\ llast'.pubs = IF local THEN 1 ELSE 0
           /\ local =>
                \A q \in Procs :
                    /\ ready[q] => Len(life'[q]) = Len(life[q]) + 1
                    /\ ~ready[q] => life'[q] = life[q]
           /\ (llast'.op \in {"remoteCreate", "remoteRemove", "dropped"}
                    /\ life[p] # <<>>) =>
                life' = [life EXCEPT ![p] = Tail(@)]
           /\ llast'.op \in {"set", "ready"} => life' = life
    ]_vars

\* a remote create has materialised a state on a process and a remote remove has
\* deleted one, and the transport holds nothing any more
C24_Witness ==
    /\ llast.op = "remoteRemove"
    /\ \E q \in Procs : q # llast.p /\ HasState(states[q], llast.key)
    /\ ~HasState(states[llast.p], llast.key)
    /\ nextInst[llast.p] > 0
    /\ \A q \in Procs : ready[q] /\ life[q] = <<>>

(* -------------------- claims: malformed payloads ----------------------- *)

\* C25: a malformed payload of a transport (no JSON, null, an envelope without
\* a message, a broadcast without name or message, a lifecycle event without a
\* channel or of an unknown type, an update that is no object or lacks the wrap
\* key) is discarded by the process it is delivered to: the listener catches
\* what is thrown or the handler returns at once, and neither the state's value,
\* nor the registry, nor the channel index changes, nothing is written to a
\* connection and nothing is published.
C25_MalformedDiscarded ==
    /\ [][(slast'.op \in {"remote", "ignored", "caught", "threw", "dropped"}
                /\ net[slast'.p] # <<>> /\ Head(net[slast'.p]) \in ForeignUpdates) =>
            /\ slast'.op \in {"ignored", "caught"}
            /\ slast'.sends = 0 /\ slast'.pubs = 0
            /\ value' = value
            /\ net' = [net EXCEPT ![slast'.p] = Tail(@)]
       ]_vars
    /\ [][(llast'.op \in {"remoteCreate", "remoteRemove", "ignored", "caught", "threw", "dropped"}
                /\ life[llast'.p] # <<>> /\ Head(life[llast'.p]) \in ForeignLifeEvents) =>
            /\ llast'.op \in {"ignored", "caught"}
            /\ llast'.inst = 0 /\ llast'.pubs = 0
            /\ states' = states /\ nextInst' = nextInst
            /\ life' = [life EXCEPT ![llast'.p] = Tail(@)]
       ]_vars
    /\ [][(rlast'.op \in {"relayed", "ignored", "caught", "threw", "dropped"}
                /\ bnet[rlast'.p] # <<>> /\ Head(bnet[rlast'.p]) \in ForeignBroadcasts) =>
            /\ rlast'.op \in {"ignored", "caught"}
            /\ rlast'.wrote = {} /\ rlast'.pubs = 0 /\ ~rlast'.unhandled
            /\ joined' = joined
            /\ bnet' = [bnet EXCEPT ![rlast'.p] = Tail(@)]
       ]_vars

\* a process whose registry holds a state has been handed a lifecycle payload
\* that is malformed and has discarded it
C25_Witness ==
    /\ llast.op \in {"ignored", "caught"}
    /\ HasState(states[llast.p], "user-count")
    /\ life[llast.p] = <<>>

(* --------------------- claims: handler registration -------------------- *)

\* C26: an EvRedisPubSub has one handler at most: a message that is not the
\* instance's own is handed to the handler registered last, once, and to no
\* handler registered before it, whoever registered them (the constructor's
\* option, an EvStreamManager, an EvStateManager).
C26_LastHandlerOnly ==
    [][(rlast'.op = "delivered" /\ bnet[rlast'.p] # <<>>) =>
        LET p == rlast'.p IN
        /\ ~BridgeSelf(p, Head(bnet[p]))
        /\ invoked' = IF regs[p] = <<>> THEN <<>> ELSE <<regs[p][Len(regs[p])]>>
    ]_vars

\* a manager's handler was replaced by a state manager's, and a broadcast on a
\* channel with a local listener was handed to the state manager's handler only
C26_Witness ==
    /\ rlast.op = "delivered"
    /\ regs[rlast.p] = <<"manager", "states">>
    /\ invoked = <<"states">>
    /\ "news" \in joined[rlast.p]
    /\ rlast.wrote = {}

\* C27: the adapter calls the transport's subscribe once for a channel, however
\* many handlers are registered and also when subscribe calls overlap with the
\* first one's pending transport subscription; a message of the channel that is
\* not the adapter's own is passed once to every handler whose subscribe has
\* resolved, and to no other.
C27_OneTransportSubscription ==
    /\ [](adapter.tcalls <= 1)
    /\ []((adapter.pend # {} \/ adapter.hs # <<>>) => adapter.tcalls = 1)
    /\ [][alast'.op = "deliver" /\ anet # <<>> =>
            /\ ~AdapterSelf(Self, Head(anet))
            /\ \A h \in AHandlers : alast'.got[h] = IF h \in resolved THEN 1 ELSE 0
       ]_vars

\* a subscribe call that overlapped with the first one's pending transport
\* subscription has resolved, and its handler was passed a message while the
\* first call was still pending
C27_Witness ==
    /\ alast.op = "deliver"
    /\ adapter.pend # {}
    /\ adapter.tcalls = 1
    /\ \E h \in resolved : h \notin adapter.pend /\ alast.got[h] = 1

\* C28: an update { [key]: v } that is delivered to an EvState twice in
\* succession leaves the value the first delivery left and is broadcast once at
\* most: the repeated delivery changes nothing and sends nothing.
C28_DuplicateUpdateIdempotent ==
    [][(slast.op \in {"duplicate", "again"} /\ slast'.op \in {"again", "remote"}
            /\ slast'.p = slast.p /\ net[slast.p] # <<>>) =>
        /\ slast'.arg = slast.arg
        /\ value' = value
        /\ value[slast.p] = slast.arg
        /\ slast'.sends = 0
        /\ slast.sends + slast'.sends <= 1
    ]_vars

\* an update of another process changed the value and was broadcast at its first
\* delivery, and has been delivered once more
C28_Witness ==
    /\ slast.op = "again"
    /\ value[slast.p] = slast.arg
    /\ value[slast.p] # InitialValue
    /\ \E q \in Procs : q # slast.p /\ Head(net[slast.p]) = Envelope(q, Wrap(slast.arg))

(* ------------------------ claims: the live count ----------------------- *)

\* C29: the manager's count is the number of entries of its registry and lies
\* between 0 and maxConnection; a createStream that succeeds raises it by one, a
\* teardown lowers it by one, and the createStream that follows a teardown
\* succeeds, also when the manager was at full capacity before.
C29_CountIsRegistrySize ==
    /\ [](count = Cardinality(clients) /\ 0 <= count /\ count <= MaxConnection)
    /\ [][(last'.op = "createStream" /\ last'.result = "ok") => count' = count + 1]_vars
    /\ [][(last'.op \in {"close", "sinkClose"} /\ last'.result = "ok") =>
            /\ count' = count - 1
            /\ Cardinality(clients') = Cardinality(clients) - 1
       ]_vars
    /\ [][(last.op \in {"close", "sinkClose"} /\ last.result = "ok"
                /\ last'.op = "createStream") =>
            /\ last'.result = "ok"
            /\ count' = count + 1
       ]_vars

\* a connection of a manager at full capacity has been torn down
C29_Witness ==
    /\ last.op = "close"
    /\ last.result = "ok"
    /\ count = MaxConnection - 1
    /\ Cardinality(clients) = MaxConnection - 1
    /\ \E c \in Conns : created[c] /\ isClosed[c] /\ c \notin clients

(* ---------------------- claims: removed states ------------------------- *)

\* C30 (as claimed): removed is a terminal state: a set on an EvState whose key
\* has been removed from the EvStateManager, by removeState or by a remote
\* 'remove', is a no-op that calls neither manager.send nor adapter.publish.
C30_RemovedIsTerminal ==
    llast.op \in {"setRemoved", "setRemovedBroadcast"} =>
        /\ llast.op = "setRemoved"
        /\ llast.pubs = 0

(* ------------------------ claims: connection ids ---------------------- *)

\* C31: the counter component of the ids is unique: no two connections that are
\* in the registry at the same time were given the same counter value.
C31_CounterUnique ==
    \A c, d \in clients : c # d => counterOf[c] # counterOf[d]

(* ------------------------ claims: a failed listen --------------------- *)

\* C32: a listen(name) that fails with EvMaxListenerError changes nothing: the
\* channel index is as it was, and the connection's own list of channels, which
\* did not hold name, does not hold it afterwards.
C32_FailedListenChangesNothing ==
    [][\A c \in Conns, name \in Channels :
          (Listen(c, name) /\ last'.result = "EvMaxListenerError")
              => /\ listeners' = listeners
                 /\ ~Has(channels[c], name) => ~Has(channels'[c], name)]_vars

(* --------------- claims: remote updates and the registry -------------- *)

\* C33: a remote update of a key is reacted to by at most one EvState of the
\* process: it causes at most one local broadcast, and none while the key is not
\* in the EvStateManager of the process.
C33_OneReactionPerKey ==
    [][(slast'.op = "remote" /\ net' # net)
          => /\ slast'.sends <= 1
             /\ (\A k \in Keys : ~HasState(states[slast'.p], k)) => slast'.sends = 0]_vars

(* ----------- claims: the bridge and the adapter together -------------- *)

\* C34: with a bridge and an adapter bound, a value-changing set is delivered to
\* each client of the state's channel once: no client is written a value more
\* often than set calls changed a state to it.
C34_DeliveredOnce ==
    \A p \in Procs, v \in Values : written[p][v] <= sets[v]

(* ---------------- claims: writes after the end of the sink ------------ *)

\* C35: nothing is written to a connection's sink after the sink has been
\* ended, by close() or by a rejected authenticate().
C35_NoWriteAfterEnd == ~sink.late

(* ---------------- claims: a callback that throws ---------------------- *)

\* C36: the teardown completes even if onClose throws: a connection on which
\* close() was invoked, so that every further close() is a no-op, is in no
\* channel and not in the client registry, and its count slot is released.
C36_TeardownCompletes ==
    /\ \A c \in Conns :
            (created[c] /\ isClosed[c]) =>
                /\ c \notin clients
                /\ \A n \in DOMAIN listeners : c \notin listeners[n]
    /\ count = Cardinality({c \in Conns : created[c] /\ ~isClosed[c]})

(* ------------- claims: subscribe and unsubscribe overlapping ---------- *)

\* C37: a handler whose subscribe has resolved, with no unsubscribe called
\* afterwards, is registered, and is passed every message of the channel that is
\* delivered from then on and is not the adapter's own.
C37_ResolvedIsRegistered ==
    /\ [](\A h \in resolved : Has(adapter.hs, h))
    /\ [][(alast'.op \in {"deliver", "dropped"} /\ anet # <<>> /\ anet' = Tail(anet)
              /\ ~AdapterSelf(Self, Head(anet)))
            => \A h \in resolved : alast'.got[h] >= 1]_vars

====
